---- MODULE Spec2Model ----
(***************************************************************************)
(* Fundability Snapshot Engine (fundedfi/fundability-engine).              *)
(*                                                                         *)
(* The scoring core, lib/scoring-engine.ts, is a pure function from a      *)
(* validated FundabilityInput to a FundabilitySnapshot.  Spec draws the    *)
(* input record in Init and applies calculateFundabilitySnapshot to it.    *)
(*                                                                         *)
(* Conventions.                                                            *)
(*  - null is the integer -1: it lies outside the validated range of       *)
(*    every nullable field (credit_score 300..850, dti_pct 0..100).        *)
(*  - The weighted sum is kept in hundredths (the weights are 30, 25, 20,  *)
(*    10, 10 hundredths).  Every subscore is a multiple of 5, so the exact *)
(*    sum is a multiple of 0.25; the IEEE-754 double evaluation of the     *)
(*    source expression yields the same Math.round for every combination   *)
(*    of subscores and penalty, so hundredths lose nothing.                *)
(*  - Validated numbers may be fractional (utilization 29.5).  Every       *)
(*    comparison of the engine is against an integer threshold, where x    *)
(*    and floor(x) compare alike, so integer inputs represent them.        *)
(*  - String literals of the source that hold an en dash are written with  *)
(*    "-", and a right arrow with "->" (the module is ASCII).              *)
(***************************************************************************)
EXTENDS Integers, Sequences, FiniteSets, TLC

VARIABLES
  input,       \* the FundabilityInput handed to the scoring function
  snapshot,    \* the snapshot the (first) call returned
  pc,          \* the position of the caller
  second,      \* the snapshot a second call with the same input returned
  between,     \* the number of calls made between the first and the second
  request,     \* the HTTP request the snapshot handler was invoked with
  validation,  \* what validateInput(req.body) returned to the handler
  responses,   \* the responses the handler has sent, in order
  assessmentStore,  \* the in-memory store of api/fs-analytics.ts
  tracked,     \* every entry trackAssessment was called with, in call order
  clock,       \* the day the wall clock shows
  analytics,   \* the query and the metrics of the analytics call
  configs,     \* the webhook configs broadcastToWebhooks was called with
  deliveries,  \* the promise of every sendWebhook call, by position
  posts,       \* the positions of the configs fetch was called for
  broadcast,   \* the counts broadcastToWebhooks returned
  clients,     \* the client list processBatch was called with
  batchConfig, \* config.concurrency and config.webhooks
  loopIndex,   \* i of the loop that builds the chunks
  chunks,      \* the chunks, each the positions of its clients in the list
  chunkNo,     \* the chunk the loop over the chunks is at
  tasks,       \* the promise of every client of the current chunk
  success,     \* the items pushed to success
  failed,      \* the items pushed to failed
  processed,   \* the counter handed to onProgress
  events,      \* what happened so far, in order
  batchResult  \* the BatchResult processBatch returned

handlerVars == <<request, validation, responses>>

analyticsVars == <<assessmentStore, tracked, clock, analytics>>

webhookVars == <<configs, deliveries, posts, broadcast>>

batchVars ==
  <<clients, batchConfig, loopIndex, chunks, chunkNo, tasks, success, failed,
    processed, events, batchResult>>

vars == <<input, snapshot, pc, second, between, request, validation, responses,
          assessmentStore, tracked, clock, analytics,
          configs, deliveries, posts, broadcast,
          clients, batchConfig, loopIndex, chunks, chunkNo, tasks, success, failed,
          processed, events, batchResult>>

null == -1

(* Bounds of the model: the fields validation leaves unbounded above, and  *)
(* the readings of the wall clock.                                         *)
MaxInquiries == 9
MaxYears == 10
MaxTradelines == 8
MaxDerogs == 3
MaxClock == 1
MaxBetween == 2
StoreLimit == 2
MaxTracked == 3
MaxDay == 40
MaxConfigs == 3
MaxClients == 3

(* lib/validation.ts: the validated ranges. *)
MinCreditScore == 300
MaxCreditScore == 850
MaxPct == 100

(* api/fs-analytics.ts: the default window of a query, in days. *)
WindowDays == 30

Max(a, b) == IF a >= b THEN a ELSE b
Min(a, b) == IF a <= b THEN a ELSE b

PrimaryGoal ==
  {"startup_funding", "business_funding", "debt_consolidation", "improve_credit",
   "lower_utilization", "raise_score_fast", "not_sure"}

-----------------------------------------------------------------------------
(* Subscore calculations *)

(* Mutant: the 750 threshold exclusive. *)
calculateCreditScoreSubscore_Exclusive(score) ==
  IF score = null THEN 40
  ELSE IF score > 750 THEN 95
  ELSE IF score >= 720 THEN 90
  ELSE IF score >= 680 THEN 80
  ELSE IF score >= 640 THEN 65
  ELSE IF score >= 600 THEN 45
  ELSE IF score >= 550 THEN 30
  ELSE 15

calculateCreditScoreSubscore(score) ==
  IF score = null THEN 40
  ELSE IF score >= 750 THEN 95
  ELSE IF score >= 720 THEN 90
  ELSE IF score >= 680 THEN 80
  ELSE IF score >= 640 THEN 65
  ELSE IF score >= 600 THEN 45
  ELSE IF score >= 550 THEN 30
  ELSE 15

(* Mutant: the 30 threshold inclusive. *)
calculateUtilizationSubscore_Inclusive(utilization) ==
  IF utilization < 10 THEN 95
  ELSE IF utilization <= 30 THEN 90
  ELSE IF utilization < 50 THEN 75
  ELSE IF utilization < 75 THEN 50
  ELSE IF utilization < 90 THEN 30
  ELSE 15

(* Mutant: the 50 and 75 results exchanged. *)
calculateUtilizationSubscore_Swapped(utilization) ==
  IF utilization < 10 THEN 95
  ELSE IF utilization < 30 THEN 90
  ELSE IF utilization < 50 THEN 50
  ELSE IF utilization < 75 THEN 75
  ELSE IF utilization < 90 THEN 30
  ELSE 15

calculateUtilizationSubscore(utilization) ==
  IF utilization < 10 THEN 95
  ELSE IF utilization < 30 THEN 90
  ELSE IF utilization < 50 THEN 75
  ELSE IF utilization < 75 THEN 50
  ELSE IF utilization < 90 THEN 30
  ELSE 15

calculateDTISubscore(dti) ==
  IF dti = null THEN 55
  ELSE IF dti < 25 THEN 95
  ELSE IF dti < 35 THEN 85
  ELSE IF dti < 45 THEN 70
  ELSE IF dti < 55 THEN 45
  ELSE 25

calculateInquirySubscore(inquiries) ==
  IF inquiries <= 1 THEN 95
  ELSE IF inquiries <= 3 THEN 80
  ELSE IF inquiries <= 5 THEN 60
  ELSE IF inquiries <= 8 THEN 35
  ELSE 20

calculateDepthMixSubscore(oldestYears, tradelines) ==
  IF oldestYears >= 10 /\ tradelines >= 6 THEN 95
  ELSE IF oldestYears >= 7 /\ tradelines >= 4 THEN 85
  ELSE IF oldestYears >= 3 /\ tradelines >= 3 THEN 70
  ELSE 45

(* Mutant: the major event costs 15 points in place of 25. *)
calculatePenaltyPoints_LightEvent(bkOrMajorEvent, recentDerogs) ==
  LET p1 == IF bkOrMajorEvent THEN 0 - 15 ELSE 0
      p2 == IF recentDerogs >= 3 THEN p1 - 20
            ELSE IF recentDerogs >= 1 THEN p1 - 10
            ELSE p1
  IN  Max(p2, 0 - 35)

(* Mutant: the floor Math.max(penalty, -35) left out. *)
calculatePenaltyPoints_NoFloor(bkOrMajorEvent, recentDerogs) ==
  LET p1 == IF bkOrMajorEvent THEN 0 - 25 ELSE 0
  IN  IF recentDerogs >= 3 THEN p1 - 20
      ELSE IF recentDerogs >= 1 THEN p1 - 10
      ELSE p1

calculatePenaltyPoints(bkOrMajorEvent, recentDerogs) ==
  LET p1 == IF bkOrMajorEvent THEN 0 - 25 ELSE 0
      p2 == IF recentDerogs >= 3 THEN p1 - 20
            ELSE IF recentDerogs >= 1 THEN p1 - 10
            ELSE p1
  IN  Max(p2, 0 - 35)

-----------------------------------------------------------------------------
(* Weighted score calculation *)

(* Math.round on a value given in hundredths: the nearest integer, a tie   *)
(* going towards +Infinity.                                                *)
MathRound(hundredths) == (hundredths + 50) \div 100

(* Mutant: depthMix weighted 0.15, the five weights summing to 1. *)
WeightedSum_FullWeights(subscores) ==
  subscores.creditScoreSubscore * 30 +
  subscores.utilizationSubscore * 25 +
  subscores.dtiSubscore * 20 +
  subscores.inquirySubscore * 10 +
  subscores.depthMixSubscore * 15

WeightedSum(subscores) ==
  subscores.creditScoreSubscore * 30 +
  subscores.utilizationSubscore * 25 +
  subscores.dtiSubscore * 20 +
  subscores.inquirySubscore * 10 +
  subscores.depthMixSubscore * 10

(* Mutant: the clamp Math.max(0, Math.min(100, ..)) left out. *)
calculateWeightedScore_NoClamp(subscores) ==
  MathRound(WeightedSum(subscores) + subscores.penaltyPoints * 100)

(* Mutant: Math.floor in place of Math.round. *)
calculateWeightedScore_Floor(subscores) ==
  Max(0, Min(100, (WeightedSum(subscores) + subscores.penaltyPoints * 100) \div 100))

(* Mutant: the penalty multiplied by weights.penalty = 0.05. *)
calculateWeightedScore_WeightedPenalty(subscores) ==
  Max(0, Min(100, MathRound(WeightedSum(subscores) + subscores.penaltyPoints * 5)))

calculateWeightedScore(subscores) ==
  LET weightedSum == WeightedSum(subscores)
      rawScore == weightedSum + subscores.penaltyPoints * 100
  IN  Max(0, Min(100, MathRound(rawScore)))

(* Tier determination *)

(* Mutant: the tier 1 threshold exclusive. *)
determineTier_Exclusive(score) ==
  IF score > 85 THEN [numeric |-> 1, label |-> "Tier 1 - Ready Now (Prime)"]
  ELSE IF score >= 70 THEN [numeric |-> 2, label |-> "Tier 2 - Tune-Up Then Ready"]
  ELSE IF score >= 55 THEN [numeric |-> 3, label |-> "Tier 3 - Optimization Required"]
  ELSE [numeric |-> 4, label |-> "Tier 4 - Rehab / Long-Term Plan"]

determineTier(score) ==
  IF score >= 85 THEN [numeric |-> 1, label |-> "Tier 1 - Ready Now (Prime)"]
  ELSE IF score >= 70 THEN [numeric |-> 2, label |-> "Tier 2 - Tune-Up Then Ready"]
  ELSE IF score >= 55 THEN [numeric |-> 3, label |-> "Tier 3 - Optimization Required"]
  ELSE [numeric |-> 4, label |-> "Tier 4 - Rehab / Long-Term Plan"]

-----------------------------------------------------------------------------
(* Array helpers: Array.prototype.slice(0, n) and the stable                *)
(* Array.prototype.sort((a, b) => b.priority - a.priority).                 *)

Slice(s, n) == SubSeq(s, 1, Min(n, Len(s)))

PushIf(s, cond, x) == IF cond THEN Append(s, x) ELSE s

(* x goes behind every element whose priority is at least its own. *)
RECURSIVE InsertByPriority(_, _)
InsertByPriority(sorted, x) ==
  IF sorted = <<>> THEN <<x>>
  ELSE IF Head(sorted).priority >= x.priority
       THEN <<Head(sorted)>> \o InsertByPriority(Tail(sorted), x)
       ELSE <<x>> \o sorted

RECURSIVE SortByPriority(_)
SortByPriority(s) ==
  IF s = <<>> THEN <<>>
  ELSE InsertByPriority(SortByPriority(SubSeq(s, 1, Len(s) - 1)), s[Len(s)])

-----------------------------------------------------------------------------
(* Generate strengths *)

StrengthCredit == "Strong core credit score positioning you favorably with lenders"
StrengthUtilization == "Low revolving utilization demonstrating strong credit management"
StrengthDTI == "Healthy debt-to-income profile showing strong repayment capacity"
StrengthDepthMix == "Established credit history with good depth and account mix"
StrengthFallback == "Active credit profile with opportunity for strategic optimization"

(* Mutant: the cut slice(0, 3) left out. *)
generateStrengths_NoCut(subscores) ==
  LET s1 == PushIf(<<>>, subscores.creditScoreSubscore >= 80, StrengthCredit)
      s2 == PushIf(s1, subscores.utilizationSubscore >= 80, StrengthUtilization)
      s3 == PushIf(s2, subscores.dtiSubscore >= 80, StrengthDTI)
      s4 == PushIf(s3, subscores.depthMixSubscore >= 80, StrengthDepthMix)
  IN  PushIf(s4, Len(s4) = 0, StrengthFallback)

generateStrengths(subscores) ==
  LET s1 == PushIf(<<>>, subscores.creditScoreSubscore >= 80, StrengthCredit)
      s2 == PushIf(s1, subscores.utilizationSubscore >= 80, StrengthUtilization)
      s3 == PushIf(s2, subscores.dtiSubscore >= 80, StrengthDTI)
      s4 == PushIf(s3, subscores.depthMixSubscore >= 80, StrengthDepthMix)
      strengths == PushIf(s4, Len(s4) = 0, StrengthFallback)
  IN  Slice(strengths, 3)

(* Generate risks *)

RiskUtilization == "High utilization is suppressing score and limiting available credit"
RiskDTI == "Elevated DTI ratio is constraining approval odds and loan amounts"
RiskInquiry == "Recent inquiry activity is raising risk flags with underwriters"
RiskPenalty == "Recent derogatory events are significantly impacting approval probability"
RiskFallback == "Profile requires fine-tuning to maximize funding potential"

(* Mutant: the cut slice(0, 3) left out. *)
generateRisks_NoCut(subscores) ==
  LET r1 == PushIf(<<>>, subscores.utilizationSubscore <= 50, RiskUtilization)
      r2 == PushIf(r1, subscores.dtiSubscore <= 45, RiskDTI)
      r3 == PushIf(r2, subscores.inquirySubscore <= 60, RiskInquiry)
      r4 == PushIf(r3, subscores.penaltyPoints < 0, RiskPenalty)
  IN  PushIf(r4, Len(r4) = 0, RiskFallback)

generateRisks(subscores) ==
  LET r1 == PushIf(<<>>, subscores.utilizationSubscore <= 50, RiskUtilization)
      r2 == PushIf(r1, subscores.dtiSubscore <= 45, RiskDTI)
      r3 == PushIf(r2, subscores.inquirySubscore <= 60, RiskInquiry)
      r4 == PushIf(r3, subscores.penaltyPoints < 0, RiskPenalty)
      risks == PushIf(r4, Len(r4) = 0, RiskFallback)
  IN  Slice(risks, 3)

(* Generate high-impact actions *)

ActionUtilization(pct) ==
  "Pay down revolving balances to reduce utilization below 30% - current "
    \o ToString(pct) \o "% is limiting approvals"
ActionDTI ==
  "Target paying off 1-2 highest monthly payment accounts to improve DTI and boost approval odds"
ActionInquiry(n) ==
  "Avoid new credit applications for 60-90 days to let "
    \o ToString(n) \o " recent inquiries age off impact period"
ActionPenalty ==
  "Review and dispute any inaccurate derogatory marks; negotiate payment-for-deletion on valid collections"
ActionDepthMix ==
  "Add 1-2 new tradelines (authorized user or credit builder loan) to strengthen credit mix and depth"
ActionCredit ==
  "Focus on on-time payments for next 6 months - payment history is the #1 score driver"
ActionBalanceTransfer ==
  "Consider balance transfer or consolidation product to restructure expensive revolving debt at lower rates"

ActionItem(priority, action) == [priority |-> priority, action |-> action]

(* The candidates in the order the rules push them, before the sort. *)
ActionCandidates(in, subscores) ==
  LET a1 == PushIf(<<>>, subscores.utilizationSubscore <= 75,
              ActionItem(IF subscores.utilizationSubscore <= 50 THEN 100 ELSE 80,
                         ActionUtilization(in.revolving_utilization_pct)))
      a2 == PushIf(a1, subscores.dtiSubscore <= 70,
              ActionItem(IF subscores.dtiSubscore <= 45 THEN 95 ELSE 75, ActionDTI))
      a3 == PushIf(a2, subscores.inquirySubscore <= 60,
              ActionItem(85, ActionInquiry(in.inquiries_6m)))
      a4 == PushIf(a3, subscores.penaltyPoints < 0, ActionItem(90, ActionPenalty))
      a5 == PushIf(a4, subscores.depthMixSubscore <= 70, ActionItem(60, ActionDepthMix))
      a6 == PushIf(a5, subscores.creditScoreSubscore <= 65, ActionItem(70, ActionCredit))
  IN  PushIf(a6, in.revolving_utilization_pct >= 50 /\ subscores.creditScoreSubscore >= 65,
             ActionItem(85, ActionBalanceTransfer))

(* Mutant: the cut slice(0, 5) taken before the sort. *)
generateHighImpactActions_CutFirst(in, subscores) ==
  LET top == SortByPriority(Slice(ActionCandidates(in, subscores), 5))
  IN  [i \in 1..Len(top) |-> top[i].action]

generateHighImpactActions(in, subscores) ==
  LET top == Slice(SortByPriority(ActionCandidates(in, subscores)), 5)
  IN  [i \in 1..Len(top) |-> top[i].action]

-----------------------------------------------------------------------------
(* Funding ranges *)

calculateFundingRange(tier) ==
  CASE tier = 1 -> "Moderate-High ($50K-$150K+)"
    [] tier = 2 -> "Moderate ($25K-$75K)"
    [] tier = 3 -> "Low-Moderate ($10K-$50K)"
    [] tier = 4 -> "Low ($5K-$25K)"
    [] OTHER -> "Low"

(* Mutant: the floor Math.max(1, tier - 1) left out. *)
calculateOptimizedFundingRange_NoFloor(tier, utilization, dti, inquiry) ==
  LET hasOptimizationPotential == utilization <= 75 \/ dti <= 70 \/ inquiry <= 60
      optimizedTier == tier - 1
  IN  IF ~hasOptimizationPotential THEN calculateFundingRange(tier)
      ELSE CASE optimizedTier = 1 -> "High ($75K-$200K+)"
             [] optimizedTier = 2 -> "Moderate-High ($50K-$125K)"
             [] optimizedTier = 3 -> "Moderate ($25K-$75K)"
             [] optimizedTier = 4 -> "Low-Moderate ($15K-$50K)"
             [] OTHER -> "Moderate"

calculateOptimizedFundingRange(tier, utilization, dti, inquiry) ==
  LET hasOptimizationPotential == utilization <= 75 \/ dti <= 70 \/ inquiry <= 60
      optimizedTier == Max(1, tier - 1)
  IN  IF ~hasOptimizationPotential THEN calculateFundingRange(tier)
      ELSE CASE optimizedTier = 1 -> "High ($75K-$200K+)"
             [] optimizedTier = 2 -> "Moderate-High ($50K-$125K)"
             [] optimizedTier = 3 -> "Moderate ($25K-$75K)"
             [] optimizedTier = 4 -> "Low-Moderate ($15K-$50K)"
             [] OTHER -> "Moderate"

(* Goal path generation *)
generateGoalPath(goal, tier) ==
  CASE goal = "startup_funding" ->
         IF tier >= 3
         THEN "Credit optimization -> secured/alternative startup capital -> traditional business funding"
         ELSE "Direct path to startup funding with credit-backed business lines and term loans"
    [] goal = "business_funding" ->
         IF tier >= 3
         THEN "Strengthen credit profile -> explore revenue-based or collateral-backed options -> scale to unsecured lines"
         ELSE "Ready for unsecured business lines, equipment financing, and SBA products"
    [] goal = "debt_consolidation" ->
         IF tier >= 3
         THEN "Targeted consolidation of high-APR debt -> rebuild utilization -> qualify for larger business funding"
         ELSE "Consolidate with balance transfer or personal loan -> leverage improved profile for business capital"
    [] goal = "improve_credit" ->
         "Execute high-impact actions over 90-180 days -> re-position for prime funding opportunities"
    [] goal = "lower_utilization" ->
         IF tier >= 3
         THEN "Pay down revolving debt or secure consolidation loan -> improved scores unlock better funding products"
         ELSE "Strategic utilization reduction -> immediate access to expanded credit lines and funding"
    [] goal = "raise_score_fast" ->
         "Focus on rapid-impact tactics: utilization reduction, dispute errors, add authorized user tradelines"
    [] goal = "not_sure" ->
         IF tier >= 3
         THEN "Strengthen fundability foundation -> explore funding options aligned with business goals"
         ELSE "Strong fundability position - evaluate business vs personal funding needs and optimal structure"
    [] OTHER -> "Custom funding path based on profile optimization and business objectives"

-----------------------------------------------------------------------------
(* calculateFundabilitySnapshot *)

Subscores(in) ==
  [creditScoreSubscore |-> calculateCreditScoreSubscore(in.credit_score),
   utilizationSubscore |-> calculateUtilizationSubscore(in.revolving_utilization_pct),
   dtiSubscore |-> calculateDTISubscore(in.dti_pct),
   inquirySubscore |-> calculateInquirySubscore(in.inquiries_6m),
   depthMixSubscore |-> calculateDepthMixSubscore(in.oldest_account_years, in.open_tradelines),
   penaltyPoints |-> calculatePenaltyPoints(in.bk_or_major_event, in.recent_derogs_24m)]

(* Mutant: the two missing-data flags read each other's field. *)
Flags_Crossed(in, tier, penaltyPoints) ==
  [missing_credit_score |-> in.dti_pct = null,
   missing_utilization |-> FALSE,
   missing_dti |-> in.credit_score = null,
   high_risk_profile |-> (tier.numeric = 4 \/ penaltyPoints <= 0 - 20)]

(* Mutant: the penalty test strict. *)
Flags_StrictPenalty(in, tier, penaltyPoints) ==
  [missing_credit_score |-> in.credit_score = null,
   missing_utilization |-> FALSE,
   missing_dti |-> in.dti_pct = null,
   high_risk_profile |-> (tier.numeric = 4 \/ penaltyPoints < 0 - 20)]

Flags(in, tier, penaltyPoints) ==
  [missing_credit_score |-> in.credit_score = null,
   missing_utilization |-> FALSE,
   missing_dti |-> in.dti_pct = null,
   high_risk_profile |-> (tier.numeric = 4 \/ penaltyPoints <= 0 - 20)]

(* Mutant: a module-level call counter leaks into the score. *)
calculateFundabilitySnapshot_SharedCounter(in, now) ==
  LET subscores == Subscores(in)
      fundabilityScore == Min(100, calculateWeightedScore(subscores) + between)
      tier == determineTier(fundabilityScore)
  IN  [fundability_score |-> fundabilityScore,
       fundability_tier_numeric |-> tier.numeric,
       fundability_tier_label |-> tier.label,
       subscores |->
         [credit_score_subscore |-> subscores.creditScoreSubscore,
          utilization_subscore |-> subscores.utilizationSubscore,
          dti_subscore |-> subscores.dtiSubscore,
          inquiry_subscore |-> subscores.inquirySubscore,
          depth_mix_subscore |-> subscores.depthMixSubscore,
          penalty_points |-> subscores.penaltyPoints],
       key_strengths |-> generateStrengths(subscores),
       key_risks |-> generateRisks(subscores),
       high_impact_actions |-> generateHighImpactActions(in, subscores),
       funding_range_now |-> calculateFundingRange(tier.numeric),
       funding_range_after_optimization |->
         calculateOptimizedFundingRange(tier.numeric, subscores.utilizationSubscore,
                                        subscores.dtiSubscore, subscores.inquirySubscore),
       goal_path |-> generateGoalPath(in.primary_goal, tier.numeric),
       flags |-> Flags(in, tier, subscores.penaltyPoints),
       meta |-> [version |-> "fs_engine_v1.0", generated_at |-> now]]

(* now is the reading of the wall clock taken by new Date(). *)
calculateFundabilitySnapshot(in, now) ==
  LET subscores == Subscores(in)
      fundabilityScore == calculateWeightedScore(subscores)
      tier == determineTier(fundabilityScore)
  IN  [fundability_score |-> fundabilityScore,
       fundability_tier_numeric |-> tier.numeric,
       fundability_tier_label |-> tier.label,
       subscores |->
         [credit_score_subscore |-> subscores.creditScoreSubscore,
          utilization_subscore |-> subscores.utilizationSubscore,
          dti_subscore |-> subscores.dtiSubscore,
          inquiry_subscore |-> subscores.inquirySubscore,
          depth_mix_subscore |-> subscores.depthMixSubscore,
          penalty_points |-> subscores.penaltyPoints],
       key_strengths |-> generateStrengths(subscores),
       key_risks |-> generateRisks(subscores),
       high_impact_actions |-> generateHighImpactActions(in, subscores),
       funding_range_now |-> calculateFundingRange(tier.numeric),
       funding_range_after_optimization |->
         calculateOptimizedFundingRange(tier.numeric, subscores.utilizationSubscore,
                                        subscores.dtiSubscore, subscores.inquirySubscore),
       goal_path |-> generateGoalPath(in.primary_goal, tier.numeric),
       flags |-> Flags(in, tier, subscores.penaltyPoints),
       meta |-> [version |-> "fs_engine_v1.0", generated_at |-> now]]

-----------------------------------------------------------------------------
(* The validated input records the model draws.  Only the fields the       *)
(* engine reads are kept (the identity fields, requested_amount and the    *)
(* optional extras are never read by lib/scoring-engine.ts).               *)

FundabilityInput(cs, util, dti, inq, years, lines, derogs, bk, goal) ==
  [credit_score |-> cs, revolving_utilization_pct |-> util, dti_pct |-> dti,
   inquiries_6m |-> inq, oldest_account_years |-> years, open_tradelines |-> lines,
   recent_derogs_24m |-> derogs, bk_or_major_event |-> bk, primary_goal |-> goal]

(* Every valid value of a field. *)
CreditScoreRange == {null} \cup (MinCreditScore..MaxCreditScore)
UtilizationRange == 0..MaxPct
DTIRange == {null} \cup (0..MaxPct)
InquiryRange == 0..MaxInquiries
YearsRange == 0..MaxYears
TradelineRange == 0..MaxTradelines
DerogRange == 0..MaxDerogs

(* The ends of each range, every threshold and the integer below it. *)
CreditScoreEdges ==
  {MinCreditScore, 549, 550, 599, 600, 639, 640, 679, 680, 719, 720, 749, 750, MaxCreditScore}
UtilizationEdges == {0, 9, 10, 29, 30, 49, 50, 74, 75, 89, 90, MaxPct}
DTIEdges == {0, 24, 25, 34, 35, 44, 45, 54, 55, MaxPct}

(* One value in every step of a step function. *)
CreditScoreSteps == {null, 300, 550, 600, 640, 680, 720, 750}
UtilizationSteps == {0, 10, 30, 50, 75, 90}
DTISteps == {null, 0, 25, 35, 45, 55}
InquirySteps == {0, 2, 4, 6, 9}
DepthSteps == {<<0, 0>>, <<3, 3>>, <<7, 4>>, <<10, 6>>}
DerogSteps == {0, 1, 3}

(* The end-to-end scenario and the README request example. *)
EndToEndInput == FundabilityInput(720, 25, 30, 1, 10, 8, 0, FALSE, "business_funding")
ReadmeInput == FundabilityInput(680, 45, 38, 3, 8, 7, 0, FALSE, "business_funding")
BaseInputs == {EndToEndInput, ReadmeInput}

(* Every combination of steps. *)
StepInputs ==
  {FundabilityInput(cs, util, dti, inq, d[1], d[2], derogs, bk, "business_funding") :
     cs \in CreditScoreSteps, util \in UtilizationSteps, dti \in DTISteps,
     inq \in InquirySteps, d \in DepthSteps, derogs \in DerogSteps, bk \in BOOLEAN}

(* A base record with one field taking every valid value. *)
SweepInputs ==
  UNION {
    {[b EXCEPT !.credit_score = v] : v \in CreditScoreRange} \cup
    {[b EXCEPT !.revolving_utilization_pct = v] : v \in UtilizationRange} \cup
    {[b EXCEPT !.dti_pct = v] : v \in DTIRange} \cup
    {[b EXCEPT !.inquiries_6m = v] : v \in InquiryRange} \cup
    {[b EXCEPT !.oldest_account_years = y, !.open_tradelines = t] :
       y \in YearsRange, t \in TradelineRange} \cup
    {[b EXCEPT !.recent_derogs_24m = v, !.bk_or_major_event = k] :
       v \in DerogRange, k \in BOOLEAN} \cup
    {[b EXCEPT !.primary_goal = g] : g \in PrimaryGoal}
    : b \in BaseInputs }

Inputs == StepInputs \cup SweepInputs

NoSnapshot == <<>>
NoInput == <<>>
NoRequest == <<>>
NoValidation == <<>>

(* No second call is part of the run. *)
RepeatIdle == second = NoSnapshot /\ between = 0

NoAnalytics == <<>>

(* No analytics call is part of the run. *)
AnalyticsIdle ==
  /\ assessmentStore = <<>>
  /\ tracked = <<>>
  /\ clock = 0
  /\ analytics = NoAnalytics

NoBroadcast == <<>>

(* No broadcast is part of the run. *)
WebhooksIdle ==
  /\ configs = <<>>
  /\ deliveries = <<>>
  /\ posts = <<>>
  /\ broadcast = NoBroadcast

NoBatchResult == <<>>

(* No batch is part of the run. *)
BatchIdle ==
  /\ clients = <<>>
  /\ batchConfig = <<>>
  /\ loopIndex = 0
  /\ chunks = <<>>
  /\ chunkNo = 0
  /\ tasks = <<>>
  /\ success = <<>>
  /\ failed = <<>>
  /\ processed = 0
  /\ events = <<>>
  /\ batchResult = NoBatchResult

(* No HTTP request is part of the run. *)
HandlerIdle == request = NoRequest /\ validation = NoValidation /\ responses = <<>>

Init ==
  /\ input \in Inputs
  /\ snapshot = NoSnapshot
  /\ pc = "ready"
  /\ RepeatIdle
  /\ HandlerIdle
  /\ AnalyticsIdle
  /\ WebhooksIdle
  /\ BatchIdle

(* One call of calculateFundabilitySnapshot(input). *)
CalculateFundabilitySnapshot ==
  /\ pc = "ready"
  /\ \E now \in 0..MaxClock : snapshot' = calculateFundabilitySnapshot(input, now)
  /\ pc' = "done"
  /\ UNCHANGED <<input, second, between, handlerVars, analyticsVars, webhookVars, batchVars>>

Next == CalculateFundabilitySnapshot

Spec == Init /\ [][Next]_vars

-----------------------------------------------------------------------------
(* Repeated calls: the same input record is scored a second time, after    *)
(* any number (up to MaxBetween) of calls for other records.  The engine   *)
(* has no module-level state, so a call changes nothing but its result.    *)

InitRepeat ==
  /\ input \in SweepInputs
  /\ snapshot = NoSnapshot
  /\ pc = "ready"
  /\ RepeatIdle
  /\ HandlerIdle
  /\ AnalyticsIdle
  /\ WebhooksIdle
  /\ BatchIdle

(* A call for another record; its snapshot goes to its own caller. *)
CallBetween ==
  /\ pc = "done"
  /\ between < MaxBetween
  /\ \E other \in BaseInputs, now \in 0..MaxClock :
       calculateFundabilitySnapshot(other, now).meta.generated_at = now
  /\ between' = between + 1
  /\ UNCHANGED <<input, snapshot, pc, second, handlerVars, analyticsVars, webhookVars, batchVars>>

(* The second call of calculateFundabilitySnapshot(input). *)
CallAgain ==
  /\ pc = "done"
  /\ \E now \in 0..MaxClock : second' = calculateFundabilitySnapshot(input, now)
  /\ pc' = "again"
  /\ UNCHANGED <<input, snapshot, between, handlerVars, analyticsVars, webhookVars, batchVars>>

NextRepeat == CalculateFundabilitySnapshot \/ CallBetween \/ CallAgain

SpecRepeat == InitRepeat /\ [][NextRepeat]_vars

-----------------------------------------------------------------------------
(* lib/validation.ts and the snapshot handler of api/fs-snapshot.ts.       *)
(*                                                                         *)
(* The request body is untyped JSON.  A value carries its JavaScript type; *)
(* a number is kept in tenths, so that 2.5 (tenths 25) and 3 (tenths 30)   *)
(* are told apart by Number.isInteger.  A property the object does not     *)
(* have reads as Undefined.                                                *)

Undefined == [type |-> "undefined"]
Null == [type |-> "null"]
Str(s) == [type |-> "string", str |-> s]
Bool(b) == [type |-> "boolean", bool |-> b]
Num(tenths) == [type |-> "number", tenths |-> tenths]
Whole(n) == Num(10 * n)
Obj(fields) == [type |-> "object", fields |-> fields]

(* typeof v *)
TypeOf(v) == IF v.type = "null" THEN "object" ELSE v.type

(* v ?? d *)
Nullish(v) == v.type \in {"undefined", "null"}
Coalesce(v, d) == IF Nullish(v) THEN d ELSE v

(* !v *)
Falsy(v) ==
  \/ Nullish(v)
  \/ v.type = "string" /\ v.str = ""
  \/ v.type = "number" /\ v.tenths = 0
  \/ v.type = "boolean" /\ ~v.bool

(* Number.isInteger(v), for a v that is a number *)
IsInteger(v) == v.tenths % 10 = 0

(* body.name: property access on a primitive yields undefined. *)
Prop(body, name) == IF body.type = "object" THEN body.fields[name] ELSE Undefined

(* The characters of the e-mail strings of the model. *)
Chars(s) ==
  CASE s = "a@b.c" -> <<"a", "@", "b", ".", "c">>
    [] s = "a.b@c.d" -> <<"a", ".", "b", "@", "c", ".", "d">>
    [] s = "a@b.c.d" -> <<"a", "@", "b", ".", "c", ".", "d">>
    [] s = "a@b" -> <<"a", "@", "b">>
    [] s = "ab.c" -> <<"a", "b", ".", "c">>
    [] s = "@b.c" -> <<"@", "b", ".", "c">>
    [] s = "a@.c" -> <<"a", "@", ".", "c">>
    [] s = "a@b." -> <<"a", "@", "b", ".">>
    [] s = "a b@c.d" -> <<"a", " ", "b", "@", "c", ".", "d">>
    [] s = "a@@b.c" -> <<"a", "@", "@", "b", ".", "c">>
    [] s = "a@b@c.d" -> <<"a", "@", "b", "@", "c", ".", "d">>

(* /^[^\s@]+@[^\s@]+\.[^\s@]+$/ : the positions of the "@" and of the "."  *)
(* the pattern names; every other character is neither blank nor "@".      *)
isValidEmail(email) ==
  LET c == Chars(email)
  IN  \E at \in 1..Len(c), dot \in 1..Len(c) :
        /\ 1 < at /\ at + 1 < dot /\ dot < Len(c)
        /\ c[at] = "@"
        /\ c[dot] = "."
        /\ \A i \in (1..Len(c)) \ {at} : c[i] \notin {" ", "@"}

validGoals ==
  <<"startup_funding", "business_funding", "debt_consolidation", "improve_credit",
    "lower_utilization", "raise_score_fast", "not_sure">>

(* validGoals.includes(v) *)
Includes(goals, v) == v.type = "string" /\ \E i \in 1..Len(goals) : goals[i] = v.str

(* goals.join(sep) *)
RECURSIVE Join(_, _)
Join(goals, sep) ==
  IF Len(goals) = 0 THEN ""
  ELSE IF Len(goals) = 1 THEN goals[1]
  ELSE goals[1] \o sep \o Join(Tail(goals), sep)

(* The thirteen checks of validateInput in source order: whether the check *)
(* fails, and the message it pushes.                                       *)
Checks(body) ==
  LET first_name == Prop(body, "first_name")
      last_name == Prop(body, "last_name")
      email == Prop(body, "email")
      credit_score == Prop(body, "credit_score")
      revolving_utilization_pct == Prop(body, "revolving_utilization_pct")
      dti_pct == Prop(body, "dti_pct")
      inquiries_6m == Coalesce(Prop(body, "inquiries_6m"), Whole(0))
      oldest_account_years == Coalesce(Prop(body, "oldest_account_years"), Whole(0))
      open_tradelines == Prop(body, "open_tradelines")
      recent_derogs_24m == Coalesce(Prop(body, "recent_derogs_24m"), Whole(0))
      bk_or_major_event == Coalesce(Prop(body, "bk_or_major_event"), Bool(FALSE))
      requested_amount == Prop(body, "requested_amount")
      primary_goal == Prop(body, "primary_goal")
  IN  << [failed |-> Falsy(first_name) \/ TypeOf(first_name) # "string",
          message |-> "first_name is required and must be a string"],
         [failed |-> Falsy(last_name) \/ TypeOf(last_name) # "string",
          message |-> "last_name is required and must be a string"],
         [failed |-> \/ Falsy(email)
                     \/ TypeOf(email) # "string"
                     \/ ~isValidEmail(email.str),
          message |-> "email is required and must be a valid email address"],
         [failed |-> /\ ~Nullish(credit_score)
                     /\ \/ TypeOf(credit_score) # "number"
                        \/ credit_score.tenths < 10 * MinCreditScore
                        \/ credit_score.tenths > 10 * MaxCreditScore,
          message |-> "credit_score must be between 300 and 850, or null"],
         [failed |-> \/ TypeOf(revolving_utilization_pct) # "number"
                     \/ revolving_utilization_pct.tenths < 0
                     \/ revolving_utilization_pct.tenths > 10 * MaxPct,
          message |-> "revolving_utilization_pct is required and must be between 0 and 100"],
         [failed |-> /\ ~Nullish(dti_pct)
                     /\ \/ TypeOf(dti_pct) # "number"
                        \/ dti_pct.tenths < 0
                        \/ dti_pct.tenths > 10 * MaxPct,
          message |-> "dti_pct must be between 0 and 100, or null"],
         [failed |-> \/ TypeOf(inquiries_6m) # "number"
                     \/ inquiries_6m.tenths < 0
                     \/ ~IsInteger(inquiries_6m),
          message |-> "inquiries_6m must be a non-negative integer"],
         [failed |-> \/ TypeOf(oldest_account_years) # "number"
                     \/ oldest_account_years.tenths < 0,
          message |-> "oldest_account_years must be a non-negative number"],
         [failed |-> \/ TypeOf(open_tradelines) # "number"
                     \/ open_tradelines.tenths < 0
                     \/ ~IsInteger(open_tradelines),
          message |-> "open_tradelines is required and must be a non-negative integer"],
         [failed |-> \/ TypeOf(recent_derogs_24m) # "number"
                     \/ recent_derogs_24m.tenths < 0
                     \/ ~IsInteger(recent_derogs_24m),
          message |-> "recent_derogs_24m must be a non-negative integer"],
         [failed |-> TypeOf(bk_or_major_event) # "boolean",
          message |-> "bk_or_major_event must be a boolean"],
         [failed |-> \/ TypeOf(requested_amount) # "number"
                     \/ requested_amount.tenths <= 0,
          message |-> "requested_amount is required and must be a positive number"],
         [failed |-> Falsy(primary_goal) \/ ~Includes(validGoals, primary_goal),
          message |-> "primary_goal is required and must be one of: "
                        \o Join(validGoals, ", ")] >>

(* errors after the last check: the messages pushed, in the order pushed. *)
RECURSIVE Pushed(_)
Pushed(checks) ==
  IF checks = <<>> THEN <<>>
  ELSE LET rest == Pushed(SubSeq(checks, 1, Len(checks) - 1))
       IN  PushIf(rest, checks[Len(checks)].failed, checks[Len(checks)].message)

(* Mutant: the validator returns at the first violation. *)
ValidationErrors_FailFast(body) == Slice(Pushed(Checks(body)), 1)

ValidationErrors(body) == Pushed(Checks(body))

(* Mutant: the three counts default to null as the nullable fields do. *)
Validated_NullDefaults(body) ==
  [first_name |-> Prop(body, "first_name"),
   last_name |-> Prop(body, "last_name"),
   email |-> Prop(body, "email"),
   credit_score |-> Coalesce(Prop(body, "credit_score"), Null),
   revolving_utilization_pct |-> Prop(body, "revolving_utilization_pct"),
   dti_pct |-> Coalesce(Prop(body, "dti_pct"), Null),
   inquiries_6m |-> Coalesce(Prop(body, "inquiries_6m"), Null),
   oldest_account_years |-> Coalesce(Prop(body, "oldest_account_years"), Null),
   open_tradelines |-> Prop(body, "open_tradelines"),
   recent_derogs_24m |-> Coalesce(Prop(body, "recent_derogs_24m"), Null),
   bk_or_major_event |-> Coalesce(Prop(body, "bk_or_major_event"), Bool(FALSE)),
   requested_amount |-> Prop(body, "requested_amount"),
   primary_goal |-> Prop(body, "primary_goal"),
   estimated_home_value |-> Coalesce(Prop(body, "estimated_home_value"), Null),
   mortgage_balance |-> Coalesce(Prop(body, "mortgage_balance"), Null),
   source |-> Prop(body, "source"),
   external_contact_id |-> Prop(body, "external_contact_id")]

(* The validated object with defaults applied. *)
Validated(body) ==
  [first_name |-> Prop(body, "first_name"),
   last_name |-> Prop(body, "last_name"),
   email |-> Prop(body, "email"),
   credit_score |-> Coalesce(Prop(body, "credit_score"), Null),
   revolving_utilization_pct |-> Prop(body, "revolving_utilization_pct"),
   dti_pct |-> Coalesce(Prop(body, "dti_pct"), Null),
   inquiries_6m |-> Coalesce(Prop(body, "inquiries_6m"), Whole(0)),
   oldest_account_years |-> Coalesce(Prop(body, "oldest_account_years"), Whole(0)),
   open_tradelines |-> Prop(body, "open_tradelines"),
   recent_derogs_24m |-> Coalesce(Prop(body, "recent_derogs_24m"), Whole(0)),
   bk_or_major_event |-> Coalesce(Prop(body, "bk_or_major_event"), Bool(FALSE)),
   requested_amount |-> Prop(body, "requested_amount"),
   primary_goal |-> Prop(body, "primary_goal"),
   estimated_home_value |-> Coalesce(Prop(body, "estimated_home_value"), Null),
   mortgage_balance |-> Coalesce(Prop(body, "mortgage_balance"), Null),
   source |-> Prop(body, "source"),
   external_contact_id |-> Prop(body, "external_contact_id")]

(* What a call of validateInput does: reading a property of undefined or   *)
(* null throws a TypeError; otherwise a ValidationResult is returned, its  *)
(* missing property (data or errors) reading as Undefined.                 *)
Threw == [threw |-> TRUE, message |-> "TypeError"]

validateInput(body) ==
  IF Nullish(body) THEN Threw
  ELSE LET errors == ValidationErrors(body)
       IN  IF Len(errors) > 0
             THEN [threw |-> FALSE, valid |-> FALSE, errors |-> errors,
                   data |-> Undefined]
             ELSE [threw |-> FALSE, valid |-> TRUE, errors |-> Undefined,
                   data |-> Validated(body)]

(* The validated record as the engine's FundabilityInput: null is the      *)
(* model's null, a number its integer part (see the conventions above).    *)
NumberOrNull(v) == IF v.type = "null" THEN null ELSE v.tenths \div 10

ToInput(data) ==
  FundabilityInput(NumberOrNull(data.credit_score),
                   NumberOrNull(data.revolving_utilization_pct),
                   NumberOrNull(data.dti_pct),
                   NumberOrNull(data.inquiries_6m),
                   NumberOrNull(data.oldest_account_years),
                   NumberOrNull(data.open_tradelines),
                   NumberOrNull(data.recent_derogs_24m),
                   data.bk_or_major_event.bool,
                   data.primary_goal.str)

(* The request bodies of the model. *)
ValidatedFields ==
  {"first_name", "last_name", "email", "credit_score", "revolving_utilization_pct",
   "dti_pct", "inquiries_6m", "oldest_account_years", "open_tradelines",
   "recent_derogs_24m", "bk_or_major_event", "requested_amount", "primary_goal"}

DefaultedFields ==
  {"credit_score", "dti_pct", "inquiries_6m", "oldest_account_years",
   "recent_derogs_24m", "bk_or_major_event"}

ExtraFields == {"estimated_home_value", "mortgage_balance", "source", "external_contact_id"}

(* The request of the README, with a short e-mail address. *)
ValidBody ==
  [first_name |-> Str("John"), last_name |-> Str("Doe"), email |-> Str("a@b.c"),
   credit_score |-> Whole(680), revolving_utilization_pct |-> Whole(45),
   dti_pct |-> Whole(38), inquiries_6m |-> Whole(3), oldest_account_years |-> Whole(8),
   open_tradelines |-> Whole(7), recent_derogs_24m |-> Whole(0),
   bk_or_major_event |-> Bool(FALSE), requested_amount |-> Whole(75000),
   primary_goal |-> Str("business_funding"), estimated_home_value |-> Whole(350000),
   mortgage_balance |-> Whole(200000), source |-> Str("hubspot_form"),
   external_contact_id |-> Str("hs_12345")]

(* One violating value for every validated field. *)
InvalidBody ==
  [first_name |-> Str(""), last_name |-> Undefined, email |-> Str("a@b"),
   credit_score |-> Whole(900), revolving_utilization_pct |-> Whole(150),
   dti_pct |-> Whole(-5), inquiries_6m |-> Num(25), oldest_account_years |-> Whole(-1),
   open_tradelines |-> Undefined, recent_derogs_24m |-> Str("2"),
   bk_or_major_event |-> Str("true"), requested_amount |-> Whole(0),
   primary_goal |-> Undefined, estimated_home_value |-> Undefined,
   mortgage_balance |-> Undefined, source |-> Undefined,
   external_contact_id |-> Undefined]

(* Values a JSON body can hold in a field, the edges of each range among   *)
(* them.                                                                   *)
FieldValues(f) ==
  CASE f \in {"first_name", "last_name"} ->
         {Str("John"), Str(" "), Str(""), Undefined, Null, Whole(5), Whole(0), Bool(TRUE)}
    [] f = "email" ->
         {Str(s) : s \in {"a@b.c", "a.b@c.d", "a@b.c.d", "a@b", "ab.c", "@b.c", "a@.c",
                          "a@b.", "a b@c.d", "a@@b.c", "a@b@c.d"}}
           \cup {Str(""), Undefined, Null, Whole(5), Bool(TRUE)}
    [] f = "credit_score" ->
         {Undefined, Null, Whole(0), Num(2999), Whole(MinCreditScore), Num(7005),
          Whole(MaxCreditScore), Num(8501), Str("700"), Bool(TRUE)}
    [] f \in {"revolving_utilization_pct", "dti_pct"} ->
         {Undefined, Null, Num(-1), Whole(0), Whole(30), Whole(MaxPct), Num(1001),
          Whole(150), Str("45"), Bool(FALSE)}
    [] f \in {"inquiries_6m", "open_tradelines", "recent_derogs_24m"} ->
         {Undefined, Null, Whole(-1), Whole(0), Whole(2), Num(25), Str("3"), Bool(TRUE)}
    [] f = "oldest_account_years" ->
         {Undefined, Null, Num(-5), Whole(0), Num(75), Whole(8), Str("8"), Bool(TRUE)}
    [] f = "bk_or_major_event" ->
         {Undefined, Null, Bool(TRUE), Bool(FALSE), Str("true"), Str(""), Whole(1), Whole(0)}
    [] f = "requested_amount" ->
         {Undefined, Null, Whole(-100), Whole(0), Num(1), Whole(75000), Str("75000"),
          Bool(TRUE)}
    [] f = "primary_goal" ->
         {Str(g) : g \in PrimaryGoal}
           \cup {Str("other"), Str(""), Undefined, Null, Whole(1), Bool(TRUE)}
    [] f \in {"estimated_home_value", "mortgage_balance"} ->
         {Undefined, Null, Whole(350000)}
    [] f \in {"source", "external_contact_id"} ->
         {Undefined, Str("hubspot_form")}

(* Every subset of the validated fields violated at once. *)
CrossBodies ==
  { [f \in DOMAIN ValidBody |-> IF f \in S THEN InvalidBody[f] ELSE ValidBody[f]]
    : S \in SUBSET ValidatedFields }

(* Every defaulted field present, absent or null, the rest valid. *)
DefaultBodies ==
  { [f \in DOMAIN ValidBody |->
       IF f \in A THEN Undefined ELSE IF f \in N THEN Null ELSE ValidBody[f]]
    : A \in SUBSET (DefaultedFields \cup ExtraFields), N \in SUBSET DefaultedFields }

(* One field over all its values, the rest valid or the rest violating. *)
SweepBodies ==
  UNION { UNION { {[b EXCEPT ![f] = v] : v \in FieldValues(f)} : f \in DOMAIN ValidBody }
          : b \in {ValidBody, InvalidBody} }

(* A body that is no object: absent, null, or a JSON string. *)
Bodies ==
  {Obj(fields) : fields \in CrossBodies \cup DefaultBodies \cup SweepBodies}
    \cup {Undefined, Null, Str("text")}

Methods == {"POST", "GET", "PUT", "DELETE", "OPTIONS"}

Requests ==
  {[method |-> "POST", body |-> b] : b \in Bodies}
    \cup {[method |-> m, body |-> b] :
            m \in Methods \ {"POST"},
            b \in {Obj(ValidBody), Obj(InvalidBody), Undefined}}

(* res.status(code).json(body) *)
Response(code, body) == [status |-> code, body |-> body]

InitHandler ==
  /\ request \in Requests
  /\ validation = NoValidation
  /\ responses = <<>>
  /\ input = NoInput
  /\ snapshot = NoSnapshot
  /\ pc = "handler"
  /\ RepeatIdle
  /\ AnalyticsIdle
  /\ WebhooksIdle
  /\ BatchIdle

(* Mutant: the 405 is sent but the handler goes on into the try block. *)
HandlerCheckMethod_NoReturn ==
  /\ pc = "handler"
  /\ IF request.method # "POST"
       THEN responses' = Append(responses, Response(405, [error |-> "Method not allowed"]))
       ELSE UNCHANGED responses
  /\ pc' = "try"
  /\ UNCHANGED <<input, snapshot, second, between, request, validation, analyticsVars, webhookVars, batchVars>>

(* if (req.method !== 'POST') return res.status(405)... *)
HandlerCheckMethod ==
  /\ pc = "handler"
  /\ IF request.method # "POST"
       THEN /\ responses' = Append(responses, Response(405, [error |-> "Method not allowed"]))
            /\ pc' = "returned"
       ELSE /\ pc' = "try"
            /\ UNCHANGED responses
  /\ UNCHANGED <<input, snapshot, second, between, request, validation, analyticsVars, webhookVars, batchVars>>

(* validateInput(req.body) and the branch on validationResult.valid; a     *)
(* throw passes control to the catch block.                                *)
HandlerValidate ==
  /\ pc = "try"
  /\ validation' = validateInput(request.body)
  /\ IF validation'.threw
       THEN /\ pc' = "catch"
            /\ UNCHANGED <<input, responses>>
       ELSE IF ~validation'.valid
         THEN /\ responses' =
                   Append(responses,
                          Response(400, [error |-> "Validation failed",
                                         details |-> validation'.errors]))
              /\ pc' = "returned"
              /\ UNCHANGED input
         ELSE /\ input' = ToInput(validation'.data)
              /\ pc' = "score"
              /\ UNCHANGED responses
  /\ UNCHANGED <<snapshot, second, between, request, analyticsVars, webhookVars, batchVars>>

(* calculateFundabilitySnapshot(input) and res.status(200).json(snapshot) *)
HandlerScore ==
  /\ pc = "score"
  /\ \E now \in 0..MaxClock : snapshot' = calculateFundabilitySnapshot(input, now)
  /\ responses' = Append(responses, Response(200, snapshot'))
  /\ pc' = "returned"
  /\ UNCHANGED <<input, second, between, request, validation, analyticsVars, webhookVars, batchVars>>

(* The catch block; development says whether NODE_ENV is 'development'. *)
HandlerCatch ==
  /\ pc = "catch"
  /\ \E development \in BOOLEAN :
       responses' =
         Append(responses,
                Response(500, [error |-> "Internal server error",
                               details |-> << IF development
                                                THEN validation.message
                                                ELSE "An unexpected error occurred processing your request" >>]))
  /\ pc' = "returned"
  /\ UNCHANGED <<input, snapshot, second, between, request, validation, analyticsVars, webhookVars, batchVars>>

NextHandler == HandlerCheckMethod \/ HandlerValidate \/ HandlerScore \/ HandlerCatch

SpecHandler == InitHandler /\ [][NextHandler]_vars

-----------------------------------------------------------------------------
(* api/fs-analytics.ts: the in-memory assessment store and the metrics     *)
(* computed over it.  The source keeps the last 10 000 assessments; the    *)
(* model keeps the last StoreLimit.  A timestamp is a day number.          *)

(* The clients whose assessments are tracked: one per tier, two of them    *)
(* sharing an e-mail address.                                              *)
AnalyticsClients ==
  { [first_name |-> "John", last_name |-> "Doe", email |-> "john@example.com",
     in |-> EndToEndInput],
    [first_name |-> "John", last_name |-> "Doe", email |-> "john@example.com",
     in |-> ReadmeInput],
    [first_name |-> "Ann", last_name |-> "Lee", email |-> "ann@example.com",
     in |-> FundabilityInput(640, 60, 40, 4, 5, 4, 0, FALSE, "debt_consolidation")],
    [first_name |-> "Bob", last_name |-> "Ray", email |-> "bob@example.com",
     in |-> FundabilityInput(null, 95, null, 9, 1, 1, 3, TRUE, "improve_credit")] }

(* The entry trackAssessment(input, result) pushes. *)
AssessmentEntry(client, result, now) ==
  [timestamp |-> now,
   client_email |-> client.email,
   client_name |-> client.first_name \o " " \o client.last_name,
   score |-> result.fundability_score,
   tier |-> result.fundability_tier_numeric,
   tier_label |-> result.fundability_tier_label,
   primary_goal |-> client.in.primary_goal,
   strengths |-> result.key_strengths,
   risks |-> result.key_risks,
   actions |-> result.high_impact_actions,
   funding_range |-> result.funding_range_now,
   flags |-> result.flags]

(* s.slice(-n) *)
SliceLast(s, n) == SubSeq(s, Max(1, Len(s) - n + 1), Len(s))

(* Mutant: slice(0, limit) in place of slice(-limit): the newest is lost. *)
trackAssessment_KeepOldest(store, client, result, now) ==
  LET pushed == Append(store, AssessmentEntry(client, result, now))
  IN  IF Len(pushed) > StoreLimit THEN Slice(pushed, StoreLimit) ELSE pushed

(* The store after trackAssessment(input, result). *)
trackAssessment(store, client, result, now) ==
  LET pushed == Append(store, AssessmentEntry(client, result, now))
  IN  IF Len(pushed) > StoreLimit THEN SliceLast(pushed, StoreLimit) ELSE pushed

(* parseInt(query.tier) for the tier strings of the model; NaN equals no   *)
(* tier.                                                                   *)
NaN == -1
ParseInt(s) ==
  CASE s = "1" -> 1
    [] s = "4" -> 4
    [] s = "x" -> NaN

NotGiven == "absent"

(* new Date(s) for the date strings of the model, day 0 being 2024-01-01. *)
DayOf(s) ==
  CASE s = "2024-01-01" -> 0
    [] s = "2024-01-21" -> 20

(* The queries of the model: every parameter is a string or absent. *)
Queries ==
  [start_date : {NotGiven, "2024-01-21"}, end_date : {NotGiven, "2024-01-21"},
   tier : {NotGiven, "1", "4", "x"}, goal : {NotGiven, "business_funding"}]

(* Object.entries of the counts object: the keys in the order they were    *)
(* first counted.                                                          *)
CountKey(counts, key) ==
  IF \E i \in 1..Len(counts) : counts[i].key = key
    THEN [i \in 1..Len(counts) |->
            IF counts[i].key = key
              THEN [key |-> key, count |-> counts[i].count + 1]
              ELSE counts[i]]
    ELSE Append(counts, [key |-> key, count |-> 1])

RECURSIVE CountKeys(_, _)
CountKeys(counts, keys) ==
  IF keys = <<>> THEN counts
  ELSE CountKeys(CountKey(counts, Head(keys)), Tail(keys))

RECURSIVE Flatten(_)
Flatten(lists) ==
  IF lists = <<>> THEN <<>> ELSE Head(lists) \o Flatten(Tail(lists))

(* sort((a, b) => b.count - a.count): stable, the larger count first. *)
RECURSIVE InsertByCount(_, _)
InsertByCount(sorted, x) ==
  IF sorted = <<>> THEN <<x>>
  ELSE IF Head(sorted).count >= x.count
       THEN <<Head(sorted)>> \o InsertByCount(Tail(sorted), x)
       ELSE <<x>> \o sorted

RECURSIVE SortByCount(_)
SortByCount(s) ==
  IF s = <<>> THEN <<>>
  ELSE InsertByCount(SortByCount(SubSeq(s, 1, Len(s) - 1)), s[Len(s)])

TopFive(keys) == Slice(SortByCount(CountKeys(<<>>, keys)), 5)

RECURSIVE SumScores(_)
SumScores(s) == IF s = <<>> THEN 0 ELSE Head(s).score + SumScores(Tail(s))

(* Math.round(avgScore * 10) / 10, in tenths. *)
AvgScoreTenths(filtered) ==
  IF Len(filtered) > 0
    THEN (20 * SumScores(filtered) + Len(filtered)) \div (2 * Len(filtered))
    ELSE 0

FundingRanges(filtered) ==
  [low |-> Len(SelectSeq(filtered, LAMBDA a : a.funding_range = "Low")),
   low_moderate |-> Len(SelectSeq(filtered, LAMBDA a : a.funding_range = "Low-Moderate")),
   moderate |-> Len(SelectSeq(filtered, LAMBDA a : a.funding_range = "Moderate")),
   moderate_high |-> Len(SelectSeq(filtered, LAMBDA a : a.funding_range = "Moderate-High")),
   high |-> Len(SelectSeq(filtered, LAMBDA a : a.funding_range = "High"))]

calculateAnalytics(query, store, now) ==
  LET startDate == IF query.start_date # NotGiven THEN DayOf(query.start_date)
                   ELSE now - WindowDays
      endDate == IF query.end_date # NotGiven THEN DayOf(query.end_date) ELSE now
      byDate == SelectSeq(store, LAMBDA a : a.timestamp >= startDate /\ a.timestamp <= endDate)
      byTier == IF query.tier # NotGiven
                  THEN SelectSeq(byDate, LAMBDA a : a.tier = ParseInt(query.tier))
                  ELSE byDate
      filtered == IF query.goal # NotGiven
                    THEN SelectSeq(byTier, LAMBDA a : a.primary_goal = query.goal)
                    ELSE byTier
      Strengths == Flatten([i \in 1..Len(filtered) |-> filtered[i].strengths])
      Risks == Flatten([i \in 1..Len(filtered) |-> filtered[i].risks])
      Actions == Flatten([i \in 1..Len(filtered) |-> Slice(filtered[i].actions, 3)])
  IN  [period |-> [start |-> startDate, end |-> endDate],
       totals |->
         [assessments |-> Len(filtered),
          unique_clients |-> Cardinality({filtered[i].client_email : i \in 1..Len(filtered)}),
          avg_score |-> AvgScoreTenths(filtered)],
       tier_distribution |->
         [tier_1 |-> Len(SelectSeq(filtered, LAMBDA a : a.tier = 1)),
          tier_2 |-> Len(SelectSeq(filtered, LAMBDA a : a.tier = 2)),
          tier_3 |-> Len(SelectSeq(filtered, LAMBDA a : a.tier = 3)),
          tier_4 |-> Len(SelectSeq(filtered, LAMBDA a : a.tier = 4))],
       goal_distribution |->
         [g \in {filtered[i].primary_goal : i \in 1..Len(filtered)} |->
            Len(SelectSeq(filtered, LAMBDA a : a.primary_goal = g))],
       score_ranges |->
         [r85_100 |-> Len(SelectSeq(filtered, LAMBDA a : a.score >= 85)),
          r70_84 |-> Len(SelectSeq(filtered, LAMBDA a : a.score >= 70 /\ a.score < 85)),
          r55_69 |-> Len(SelectSeq(filtered, LAMBDA a : a.score >= 55 /\ a.score < 70)),
          r0_54 |-> Len(SelectSeq(filtered, LAMBDA a : a.score < 55))],
       flags |->
         [high_risk |-> Len(SelectSeq(filtered, LAMBDA a : a.flags.high_risk_profile)),
          missing_credit |-> Len(SelectSeq(filtered, LAMBDA a : a.flags.missing_credit_score)),
          missing_dti |-> Len(SelectSeq(filtered, LAMBDA a : a.flags.missing_dti))],
       top_strengths |-> TopFive(Strengths),
       top_risks |-> TopFive(Risks),
       top_actions |-> TopFive(Actions),
       funding_ranges |-> FundingRanges(filtered)]

InitAnalytics ==
  /\ AnalyticsIdle
  /\ input = NoInput
  /\ snapshot = NoSnapshot
  /\ pc = "analytics"
  /\ RepeatIdle
  /\ HandlerIdle
  /\ WebhooksIdle
  /\ BatchIdle

(* A client is scored and trackAssessment(input, result) is called. *)
TrackAssessment ==
  /\ pc = "analytics"
  /\ Len(tracked) < MaxTracked
  /\ \E client \in AnalyticsClients :
       LET result == calculateFundabilitySnapshot(client.in, clock)
       IN  /\ assessmentStore' = trackAssessment(assessmentStore, client, result, clock)
           /\ tracked' = Append(tracked, AssessmentEntry(client, result, clock))
  /\ UNCHANGED <<input, snapshot, pc, second, between, handlerVars, clock, analytics, webhookVars, batchVars>>

(* Twenty days pass. *)
Tick ==
  /\ pc = "analytics"
  /\ clock + 20 <= MaxDay
  /\ clock' = clock + 20
  /\ UNCHANGED <<input, snapshot, pc, second, between, handlerVars,
                 assessmentStore, tracked, analytics, webhookVars, batchVars>>

(* GET /api/fs-analytics: calculateAnalytics(query). *)
CalculateAnalytics ==
  /\ pc = "analytics"
  /\ \E query \in Queries :
       analytics' = [query |-> query,
                     data |-> calculateAnalytics(query, assessmentStore, clock)]
  /\ pc' = "reported"
  /\ UNCHANGED <<input, snapshot, second, between, handlerVars,
                 assessmentStore, tracked, clock, webhookVars, batchVars>>

NextAnalytics == TrackAssessment \/ Tick \/ CalculateAnalytics

SpecAnalytics == InitAnalytics /\ [][NextAnalytics]_vars

-----------------------------------------------------------------------------
(* lib/webhooks.ts: broadcastToWebhooks and sendWebhook.                   *)
(*                                                                         *)
(* A destination answers by its url: an ok response, a response that is    *)
(* not ok, or a fetch that throws.  A config is an object or null (reading *)
(* config.enabled of null throws inside the async sendWebhook, whose       *)
(* promise is then rejected).                                              *)

FetchOutcome(url) ==
  CASE url = "https://ok.example/hook" -> "ok"
    [] url = "https://error.example/hook" -> "not_ok"
    [] url = "https://down.example/hook" -> "throws"

WebhookConfig(enabled, url) == Obj([enabled |-> enabled, type |-> Str("generic"), url |-> url])

WebhookConfigs ==
  {WebhookConfig(e, u) :
     e \in {Undefined, Bool(TRUE), Bool(FALSE)},
     u \in {"https://ok.example/hook", "https://error.example/hook",
            "https://down.example/hook"}}
    \cup {Null}

RECURSIVE SeqsUpTo(_, _)
SeqsUpTo(S, n) ==
  IF n = 0 THEN {<<>>}
  ELSE LET shorter == SeqsUpTo(S, n - 1)
       IN  shorter \cup {Append(s, x) : s \in {t \in shorter : Len(t) = n - 1}, x \in S}

(* The state of the promise sendWebhook(config, payload) returned, after   *)
(* the synchronous part of the call: rejected for a config that cannot be  *)
(* read, fulfilled with false for a disabled one, pending on fetch         *)
(* otherwise.                                                              *)
sendWebhook(config) ==
  IF Nullish(config) THEN [status |-> "rejected"]
  ELSE IF config.fields.enabled = Bool(FALSE) THEN [status |-> "fulfilled", value |-> FALSE]
  ELSE [status |-> "pending"]

(* The promise once fetch has answered: true for an ok response, false for *)
(* a response that is not ok and for a fetch that threw.                   *)
FetchSettled(config) ==
  [status |-> "fulfilled", value |-> FetchOutcome(config.fields.url) = "ok"]

(* Mutant: every fulfilled promise counts as a success. *)
BroadcastCounts_AnyFulfilled(results) ==
  LET succeeded == Len(SelectSeq(results, LAMBDA r : r.status = "fulfilled"))
  IN  [success |-> succeeded, failed |-> Len(results) - succeeded]

(* The counts broadcastToWebhooks returns from the settled results. *)
BroadcastCounts(results) ==
  LET succeeded ==
        Len(SelectSeq(results, LAMBDA r : r.status = "fulfilled" /\ r.value = TRUE))
  IN  [success |-> succeeded, failed |-> Len(results) - succeeded]

InitWebhooks ==
  /\ configs \in SeqsUpTo(WebhookConfigs, MaxConfigs)
  /\ deliveries = <<>>
  /\ posts = <<>>
  /\ broadcast = NoBroadcast
  /\ input = NoInput
  /\ snapshot = NoSnapshot
  /\ pc = "broadcast"
  /\ RepeatIdle
  /\ HandlerIdle
  /\ AnalyticsIdle
  /\ BatchIdle

(* configs.map((config) => sendWebhook(config, payload)): every call runs  *)
(* up to its first await; posts lists the configs fetch was called for.    *)
BroadcastToWebhooks ==
  /\ pc = "broadcast"
  /\ deliveries' = [i \in 1..Len(configs) |-> sendWebhook(configs[i])]
  /\ posts' = SelectSeq([i \in 1..Len(configs) |-> i],
                        LAMBDA i : sendWebhook(configs[i]).status = "pending")
  /\ pc' = "settling"
  /\ UNCHANGED <<input, snapshot, second, between, handlerVars, analyticsVars,
                 configs, broadcast, batchVars>>

(* One fetch answers; the answers come in any order. *)
FetchReturns ==
  /\ pc = "settling"
  /\ \E i \in 1..Len(deliveries) :
       /\ deliveries[i].status = "pending"
       /\ deliveries' = [deliveries EXCEPT ![i] = FetchSettled(configs[i])]
  /\ UNCHANGED <<input, snapshot, pc, second, between, handlerVars, analyticsVars,
                 configs, posts, broadcast, batchVars>>

(* Promise.allSettled resolves once no promise is pending. *)
BroadcastReturns ==
  /\ pc = "settling"
  /\ \A i \in 1..Len(deliveries) : deliveries[i].status # "pending"
  /\ broadcast' = BroadcastCounts(deliveries)
  /\ pc' = "broadcasted"
  /\ UNCHANGED <<input, snapshot, second, between, handlerVars, analyticsVars,
                 configs, deliveries, posts, batchVars>>

NextWebhooks == BroadcastToWebhooks \/ FetchReturns \/ BroadcastReturns

SpecWebhooks == InitWebhooks /\ [][NextWebhooks]_vars

-----------------------------------------------------------------------------
(* The engine on a record that was not validated.                          *)
(*                                                                         *)
(* lib/batch-processor.ts hands the client record to                       *)
(* calculateFundabilitySnapshot as it is.  A relational operator converts  *)
(* its operand to a number: null is 0 and undefined is NaN, for which      *)
(* every comparison is false.  The numbers of the model's client records   *)
(* are whole and never -1 (the model's null).                              *)

(* NaN fails every >= as a number below every threshold does, and every <  *)
(* and <= as a number above every threshold does.                          *)
BelowAll == 0 - 1000000
AboveAll == 1000000

(* The operand of a >= comparison. *)
OperandGE(v) ==
  CASE v.type = "number" -> v.tenths \div 10
    [] v.type = "null" -> 0
    [] v.type = "undefined" -> BelowAll

(* The operand of a < or <= comparison. *)
OperandLT(v) ==
  CASE v.type = "number" -> v.tenths \div 10
    [] v.type = "null" -> 0
    [] v.type = "undefined" -> AboveAll

(* `${v}` *)
TemplateText(v) ==
  CASE v.type = "string" -> v.str
    [] v.type = "number" -> ToString(v.tenths \div 10)
    [] v.type = "boolean" -> IF v.bool THEN "true" ELSE "false"
    [] v.type = "null" -> "null"
    [] v.type = "undefined" -> "undefined"

SubscoresOf(client) ==
  LET credit_score == Prop(client, "credit_score")
      dti_pct == Prop(client, "dti_pct")
  IN  [creditScoreSubscore |->
         IF credit_score = Null THEN calculateCreditScoreSubscore(null)
         ELSE calculateCreditScoreSubscore(OperandGE(credit_score)),
       utilizationSubscore |->
         calculateUtilizationSubscore(OperandLT(Prop(client, "revolving_utilization_pct"))),
       dtiSubscore |->
         IF dti_pct = Null THEN calculateDTISubscore(null)
         ELSE calculateDTISubscore(OperandLT(dti_pct)),
       inquirySubscore |-> calculateInquirySubscore(OperandLT(Prop(client, "inquiries_6m"))),
       depthMixSubscore |->
         calculateDepthMixSubscore(OperandGE(Prop(client, "oldest_account_years")),
                                   OperandGE(Prop(client, "open_tradelines"))),
       penaltyPoints |->
         calculatePenaltyPoints(~Falsy(Prop(client, "bk_or_major_event")),
                                OperandGE(Prop(client, "recent_derogs_24m")))]

(* The candidates of generateHighImpactActions, the two template strings   *)
(* printing the field as it is.                                            *)
ActionCandidatesOf(client, subscores) ==
  LET utilization == Prop(client, "revolving_utilization_pct")
      a1 == PushIf(<<>>, subscores.utilizationSubscore <= 75,
              ActionItem(IF subscores.utilizationSubscore <= 50 THEN 100 ELSE 80,
                "Pay down revolving balances to reduce utilization below 30% - current "
                  \o TemplateText(utilization) \o "% is limiting approvals"))
      a2 == PushIf(a1, subscores.dtiSubscore <= 70,
              ActionItem(IF subscores.dtiSubscore <= 45 THEN 95 ELSE 75, ActionDTI))
      a3 == PushIf(a2, subscores.inquirySubscore <= 60,
              ActionItem(85,
                "Avoid new credit applications for 60-90 days to let "
                  \o TemplateText(Prop(client, "inquiries_6m"))
                  \o " recent inquiries age off impact period"))
      a4 == PushIf(a3, subscores.penaltyPoints < 0, ActionItem(90, ActionPenalty))
      a5 == PushIf(a4, subscores.depthMixSubscore <= 70, ActionItem(60, ActionDepthMix))
      a6 == PushIf(a5, subscores.creditScoreSubscore <= 65, ActionItem(70, ActionCredit))
  IN  PushIf(a6, OperandGE(utilization) >= 50 /\ subscores.creditScoreSubscore >= 65,
             ActionItem(85, ActionBalanceTransfer))

(* calculateFundabilitySnapshot(client) for a client record as it came. *)
calculateFundabilitySnapshotOf(client, now) ==
  LET subscores == SubscoresOf(client)
      fundabilityScore == calculateWeightedScore(subscores)
      tier == determineTier(fundabilityScore)
      top == Slice(SortByPriority(ActionCandidatesOf(client, subscores)), 5)
      primary_goal == Prop(client, "primary_goal")
  IN  [fundability_score |-> fundabilityScore,
       fundability_tier_numeric |-> tier.numeric,
       fundability_tier_label |-> tier.label,
       subscores |->
         [credit_score_subscore |-> subscores.creditScoreSubscore,
          utilization_subscore |-> subscores.utilizationSubscore,
          dti_subscore |-> subscores.dtiSubscore,
          inquiry_subscore |-> subscores.inquirySubscore,
          depth_mix_subscore |-> subscores.depthMixSubscore,
          penalty_points |-> subscores.penaltyPoints],
       key_strengths |-> generateStrengths(subscores),
       key_risks |-> generateRisks(subscores),
       high_impact_actions |-> [i \in 1..Len(top) |-> top[i].action],
       funding_range_now |-> calculateFundingRange(tier.numeric),
       funding_range_after_optimization |->
         calculateOptimizedFundingRange(tier.numeric, subscores.utilizationSubscore,
                                        subscores.dtiSubscore, subscores.inquirySubscore),
       goal_path |->
         generateGoalPath(IF primary_goal.type = "string" THEN primary_goal.str ELSE "",
                          tier.numeric),
       flags |->
         [missing_credit_score |-> Prop(client, "credit_score") = Null,
          missing_utilization |-> FALSE,
          missing_dti |-> Prop(client, "dti_pct") = Null,
          high_risk_profile |-> (tier.numeric = 4 \/ subscores.penaltyPoints <= 0 - 20)],
       meta |-> [version |-> "fs_engine_v1.0", generated_at |-> now]]

-----------------------------------------------------------------------------
(* lib/batch-processor.ts: parseCSVToClients.  A file is its header cells  *)
(* and its lines, a line being the cells parseCSVLine returns for it.      *)

CsvHeaders ==
  <<"first_name", "last_name", "email", "credit_score", "revolving_utilization_pct",
    "dti_pct", "inquiries_6m", "oldest_account_years", "open_tradelines",
    "recent_derogs_24m", "bk_or_major_event", "requested_amount", "primary_goal">>

(* value.trim(): the cells of the model hold no blank but the cell " ". *)
Trim(s) == IF s = " " THEN "" ELSE s

(* value.toLowerCase() for the flag cells of the model. *)
ToLowerCase(s) ==
  CASE s = "TRUE" -> "true"
    [] s = "Yes" -> "yes"
    [] OTHER -> s

(* parseInt(value) for the number cells of the model. *)
ParseIntCell(s) ==
  CASE s = "680" -> 680
    [] s = "3" -> 3
    [] s = "7" -> 7
    [] s = "0" -> 0

(* parseFloat(value) for the number cells of the model, in tenths. *)
ParseFloatCell(s) ==
  CASE s = "45" -> 450
    [] s = "38" -> 380
    [] s = "8" -> 80
    [] s = "75000" -> 750000

(* The property a non-empty cell sets on the client.  The number cells of   *)
(* the model parse to numbers, for which parseInt(value) || 0 is the       *)
(* number parsed.                                                          *)
ParseCell(header, value) ==
  CASE header \in {"first_name", "last_name", "email", "primary_goal"} -> Str(value)
    [] header = "credit_score" -> IF value = "" THEN Null ELSE Whole(ParseIntCell(value))
    [] header = "revolving_utilization_pct" -> Num(ParseFloatCell(value))
    [] header = "dti_pct" -> IF value = "" THEN Null ELSE Num(ParseFloatCell(value))
    [] header \in {"inquiries_6m", "recent_derogs_24m"} -> Whole(ParseIntCell(value))
    [] header = "oldest_account_years" -> Num(ParseFloatCell(value))
    [] header = "open_tradelines" -> Whole(ParseIntCell(value))
    [] header = "bk_or_major_event" ->
         Bool(ToLowerCase(value) = "true" \/ ToLowerCase(value) = "yes")
    [] header = "requested_amount" -> Num(ParseFloatCell(value))

(* The client of one line: a cell that is empty after trim sets nothing. *)
ParseLine(headers, cells) ==
  Obj([f \in DOMAIN ValidBody |->
         IF \E i \in 1..Len(headers) :
              headers[i] = f /\ i <= Len(cells) /\ Trim(cells[i]) # ""
           THEN LET i == CHOOSE i \in 1..Len(headers) : headers[i] = f
                IN  ParseCell(f, Trim(cells[i]))
           ELSE Undefined])

(* if (!line.trim()) continue *)
BlankLine(cells) == Len(cells) = 1 /\ Trim(cells[1]) = ""

RECURSIVE parseCSVToClients(_, _)
parseCSVToClients(headers, lines) ==
  IF lines = <<>> THEN <<>>
  ELSE IF BlankLine(Head(lines)) THEN parseCSVToClients(headers, Tail(lines))
  ELSE <<ParseLine(headers, Head(lines))>> \o parseCSVToClients(headers, Tail(lines))

(* The request of the README as a line, with the cells of credit_score,    *)
(* dti_pct and inquiries_6m filled, empty or blank.                        *)
CsvLines ==
  { <<"John", "Doe", "a@b.c", cs, "45", dti, inq, "8", "7", "0", bk, "75000",
      "business_funding">> :
      cs \in {"680", ""}, dti \in {"38", "", " "}, inq \in {"3", ""},
      bk \in {"false", "Yes"} }

CsvFiles == {<<line>> : line \in CsvLines} \cup {<<l1, <<"">>, l2>> : l1, l2 \in {l \in CsvLines : l[11] = "false" /\ l[6] # " "}}

-----------------------------------------------------------------------------
(* lib/batch-processor.ts: processBatch.                                   *)

(* The client records of the model: the request of the README, two records *)
(* that violate constraints, and null.                                     *)
OutOfRangeClient == Obj([ValidBody EXCEPT !.revolving_utilization_pct = Whole(150)])
IncompleteClient ==
  Obj([ValidBody EXCEPT !.credit_score = Whole(900), !.open_tradelines = Undefined,
                        !.primary_goal = Undefined])

BatchRecords == {Obj(ValidBody), OutOfRangeClient, IncompleteClient, Null}

ClientLists ==
  SeqsUpTo(BatchRecords, MaxClients)
    \cup {parseCSVToClients(CsvHeaders, file) : file \in CsvFiles}

(* config.webhooks: none, an array of configs, or a value that is no array *)
(* (a url string: it has a length and no map).                             *)
WebhookSettings == {"none", "configured", "malformed"}

BatchConfigs == [concurrency : (0 - 1)..MaxClients, webhooks : WebhookSettings]

(* The most chunks the loop is followed for. *)
MaxChunks == MaxClients + 1

(* The positions (from 1) of clients.slice(start, end). *)
SlicePositions(len, start, end) ==
  LET from == IF start < 0 THEN Max(len + start, 0) ELSE Min(start, len)
      to == IF end < 0 THEN Max(len + end, 0) ELSE Min(end, len)
  IN  [j \in 1..Max(to - from, 0) |-> from + j]

(* validationErrors.length: the object validateInput returns has no length *)
(* property.                                                               *)
LengthOf(validationResult) == Undefined

(* v > 0, false for undefined. *)
AboveZero(v) == v.type = "number" /\ v.tenths > 0

ClientOf(client) ==
  [name |-> TemplateText(Prop(client, "first_name")) \o " "
              \o TemplateText(Prop(client, "last_name")),
   email |-> Prop(client, "email")]

(* The value the callback of chunk.map returns; record is the position of  *)
(* the client in the list.                                                 *)
SuccessItem(record, client, result) ==
  [status |-> "success", record |-> record, client |-> ClientOf(client), result |-> result]

FailedItem(record, client, message) ==
  [status |-> "failed", record |-> record, client |-> ClientOf(client), error |-> message]

(* The callback of chunk.map for one client, run up to its first await.    *)
(* For null or undefined, validateInput throws, and the catch block throws *)
(* again on client.first_name: the promise is rejected.                    *)
StartTask(record, client, webhooks, now) ==
  IF Nullish(client)
    THEN [state |-> "rejected", caught |-> TRUE]
  ELSE LET validationErrors == validateInput(client)
       IN  IF AboveZero(LengthOf(validationErrors))
             THEN [state |-> "fulfilled", caught |-> TRUE,
                   item |-> FailedItem(record, client,
                              "Validation failed: " \o Join(validationErrors.errors, ", "))]
           ELSE LET result == calculateFundabilitySnapshotOf(client, now)
                IN  IF webhooks = "none"
                      THEN [state |-> "fulfilled", caught |-> FALSE,
                            item |-> SuccessItem(record, client, result)]
                      ELSE [state |-> "awaiting", caught |-> FALSE,
                            item |-> SuccessItem(record, client, result)]

(* The task once broadcastToWebhooks has settled: it rejects for a value   *)
(* without map, and the catch block returns the failed item.               *)
AfterWebhooks(task, client, webhooks) ==
  IF webhooks = "malformed"
    THEN [state |-> "fulfilled", caught |-> TRUE,
          item |-> FailedItem(task.item.record, client, "configs.map is not a function")]
    ELSE [state |-> "fulfilled", caught |-> FALSE, item |-> task.item]

Event(kind, n) == [kind |-> kind, n |-> n]

(* What starting a task adds to the record of events: the validation, the  *)
(* onError call, and the settling when nothing is awaited.                 *)
StartEvents(record, task) ==
  <<Event("validate", record)>>
    \o (IF task.caught THEN <<Event("error", record)>> ELSE <<>>)
    \o (IF task.state # "awaiting" THEN <<Event("settle", record)>> ELSE <<>>)

(* results.forEach: the item is pushed, processed is incremented and       *)
(* onProgress(processed, total) is called.                                 *)
CollectEvents(chunk, before) ==
  Flatten([j \in 1..Len(chunk) |->
             <<Event("count", chunk[j]), Event("progress", before + j)>>])

(* Mutant: the delay is awaited after every chunk, the last included. *)
DelayNeeded_Always(chunkIndex, chunkCount) == TRUE

(* chunks.indexOf(chunk) < chunks.length - 1, chunkIndex counting from 1. *)
DelayNeeded(chunkIndex, chunkCount) == chunkIndex - 1 < chunkCount - 1

(* The loop over the chunks has a chunk to start. *)
ChunkReady == pc = "next_chunk" /\ chunkNo <= Len(chunks)

InitBatch ==
  /\ clients \in ClientLists
  /\ batchConfig \in BatchConfigs
  /\ loopIndex = 0
  /\ chunks = <<>>
  /\ chunkNo = 0
  /\ tasks = <<>>
  /\ success = <<>>
  /\ failed = <<>>
  /\ processed = 0
  /\ events = <<>>
  /\ batchResult = NoBatchResult
  /\ input = NoInput
  /\ snapshot = NoSnapshot
  /\ pc = "chunking"
  /\ RepeatIdle
  /\ HandlerIdle
  /\ AnalyticsIdle
  /\ WebhooksIdle

(* One iteration of for (let i = 0; i < clients.length; i += concurrency). *)
BuildChunk ==
  /\ pc = "chunking"
  /\ loopIndex < Len(clients)
  /\ Len(chunks) < MaxChunks
  /\ chunks' = Append(chunks, SlicePositions(Len(clients), loopIndex,
                                             loopIndex + batchConfig.concurrency))
  /\ loopIndex' = loopIndex + batchConfig.concurrency
  /\ UNCHANGED <<input, snapshot, pc, second, between, handlerVars, analyticsVars,
                 webhookVars, clients, batchConfig, chunkNo, tasks, success, failed,
                 processed, events, batchResult>>

(* The loop condition fails: the chunks are complete. *)
ChunksBuilt ==
  /\ pc = "chunking"
  /\ loopIndex >= Len(clients)
  /\ chunkNo' = 1
  /\ pc' = "next_chunk"
  /\ UNCHANGED <<input, snapshot, second, between, handlerVars, analyticsVars,
                 webhookVars, clients, batchConfig, loopIndex, chunks, tasks, success,
                 failed, processed, events, batchResult>>

(* chunk.map(async (client) => ...): every callback runs up to its first   *)
(* await, in the order of the chunk.                                       *)
StartChunk ==
  /\ ChunkReady
  /\ \E now \in 0..MaxClock :
       LET chunk == chunks[chunkNo]
           started == [j \in 1..Len(chunk) |->
                         StartTask(chunk[j], clients[chunk[j]], batchConfig.webhooks, now)]
       IN  /\ tasks' = started
           /\ events' = events \o Flatten([j \in 1..Len(chunk) |->
                                             StartEvents(chunk[j], started[j])])
  /\ pc' = "await_chunk"
  /\ UNCHANGED <<input, snapshot, second, between, handlerVars, analyticsVars,
                 webhookVars, clients, batchConfig, loopIndex, chunks, chunkNo, success,
                 failed, processed, batchResult>>

(* await broadcastToWebhooks(...) returns for one client of the chunk. *)
WebhooksReturn ==
  /\ pc = "await_chunk"
  /\ \E j \in 1..Len(tasks) :
       /\ tasks[j].state = "awaiting"
       /\ LET record == chunks[chunkNo][j]
              settled == AfterWebhooks(tasks[j], clients[record], batchConfig.webhooks)
          IN  /\ tasks' = [tasks EXCEPT ![j] = settled]
              /\ events' = events
                   \o (IF settled.caught THEN <<Event("error", record)>> ELSE <<>>)
                   \o <<Event("settle", record)>>
  /\ UNCHANGED <<input, snapshot, pc, second, between, handlerVars, analyticsVars,
                 webhookVars, clients, batchConfig, loopIndex, chunks, chunkNo, success,
                 failed, processed, batchResult>>

(* Promise.all(promises) rejects with the first rejected promise, and      *)
(* processBatch with it.                                                   *)
BatchRejects ==
  /\ pc = "await_chunk"
  /\ \E j \in 1..Len(tasks) : tasks[j].state = "rejected"
  /\ pc' = "rejected"
  /\ UNCHANGED <<input, snapshot, second, between, handlerVars, analyticsVars,
                 webhookVars, clients, batchConfig, loopIndex, chunks, chunkNo, tasks,
                 success, failed, processed, events, batchResult>>

(* Promise.all(promises) resolves; results.forEach sorts the items into    *)
(* success and failed and reports the progress.                            *)
CollectChunk ==
  /\ pc = "await_chunk"
  /\ \A j \in 1..Len(tasks) : tasks[j].state = "fulfilled"
  /\ LET results == [j \in 1..Len(tasks) |-> tasks[j].item]
     IN  /\ success' = success \o SelectSeq(results, LAMBDA r : r.status = "success")
         /\ failed' = failed \o SelectSeq(results, LAMBDA r : r.status # "success")
         /\ processed' = processed + Len(results)
         /\ events' = events \o CollectEvents(chunks[chunkNo], processed)
  /\ IF DelayNeeded(chunkNo, Len(chunks))
       THEN pc' = "delay" /\ UNCHANGED chunkNo
       ELSE pc' = "next_chunk" /\ chunkNo' = chunkNo + 1
  /\ UNCHANGED <<input, snapshot, second, between, handlerVars, analyticsVars,
                 webhookVars, clients, batchConfig, loopIndex, chunks, tasks,
                 batchResult>>

(* await new Promise((resolve) => setTimeout(resolve, delayMs)) *)
Delay ==
  /\ pc = "delay"
  /\ events' = Append(events, Event("delay", chunkNo))
  /\ chunkNo' = chunkNo + 1
  /\ pc' = "next_chunk"
  /\ UNCHANGED <<input, snapshot, second, between, handlerVars, analyticsVars,
                 webhookVars, clients, batchConfig, loopIndex, chunks, tasks, success,
                 failed, processed, batchResult>>

(* The loop over the chunks is over: the BatchResult is returned. *)
BatchReturns ==
  /\ pc = "next_chunk"
  /\ chunkNo > Len(chunks)
  /\ \E duration \in 0..MaxClock :
       batchResult' =
         [success |-> success,
          failed |-> failed,
          summary |-> [total |-> Len(clients), successful |-> Len(success),
                       failed |-> Len(failed), duration_ms |-> duration]]
  /\ pc' = "returned"
  /\ UNCHANGED <<input, snapshot, second, between, handlerVars, analyticsVars,
                 webhookVars, clients, batchConfig, loopIndex, chunks, chunkNo, tasks,
                 success, failed, processed, events>>

NextBatch ==
  \/ BuildChunk
  \/ ChunksBuilt
  \/ StartChunk
  \/ WebhooksReturn
  \/ BatchRejects
  \/ CollectChunk
  \/ Delay
  \/ BatchReturns

SpecBatch == InitBatch /\ [][NextBatch]_vars

(* Every step that can be taken is taken in the end: the event loop runs   *)
(* what is ready, and every webhook call completes.  StartChunk is enabled *)
(* exactly when ChunkReady holds and its step ends ChunkReady, so its weak *)
(* fairness is that ChunkReady fails again and again.                      *)
SpecBatchLive ==
  /\ SpecBatch
  /\ WF_vars(BuildChunk)
  /\ WF_vars(ChunksBuilt)
  /\ []<>~ChunkReady
  /\ WF_vars(WebhooksReturn)
  /\ WF_vars(BatchRejects)
  /\ WF_vars(CollectChunk)
  /\ WF_vars(Delay)
  /\ WF_vars(BatchReturns)

Done == pc = "done"

TypeOK ==
  /\ pc \in {"ready", "done", "again"}
  /\ input \in Inputs
  /\ Done => snapshot.meta.generated_at \in 0..MaxClock

-----------------------------------------------------------------------------
(* Properties of the scoring function *)

(* The fundability_score of another input record. *)
ScoreOf(in) == calculateWeightedScore(Subscores(in))

(* The unclamped, unrounded score in hundredths, from the snapshot's own   *)
(* subscores: 0.30 credit + 0.25 utilization + 0.20 dti + 0.10 inquiry +   *)
(* 0.10 depthMix + penalty.                                                *)
RawHundredths(snap) ==
  30 * snap.subscores.credit_score_subscore +
  25 * snap.subscores.utilization_subscore +
  20 * snap.subscores.dti_subscore +
  10 * snap.subscores.inquiry_subscore +
  10 * snap.subscores.depth_mix_subscore +
  100 * snap.subscores.penalty_points

(* C1: for every valid input the snapshot's fundability_score is an        *)
(* integer in 0..100 and its fundability_tier_numeric is 1, 2, 3 or 4.     *)
C1_ScoreAndTierInRange ==
  Done => /\ snapshot.fundability_score \in 0..100
          /\ snapshot.fundability_tier_numeric \in {1, 2, 3, 4}

(* A snapshot whose raw score is negative and was clamped to 0. *)
C1_Witness ==
  Done /\ RawHundredths(snapshot) < 0 - 50 /\ snapshot.fundability_score = 0
       /\ snapshot.fundability_tier_numeric = 4

(* C2: all else fixed, a lower utilization, a lower non-null DTI, fewer    *)
(* inquiries or a higher non-null credit score never gives a lower         *)
(* fundability_score.  The input takes every value of a range in the sweep *)
(* records; the value it is compared with takes every edge of the range.   *)
C2_Monotone ==
  Done =>
    /\ \A v \in UtilizationEdges :
         v < input.revolving_utilization_pct =>
           ScoreOf([input EXCEPT !.revolving_utilization_pct = v]) >= snapshot.fundability_score
    /\ \A v \in DTIEdges :
         (input.dti_pct # null /\ v < input.dti_pct) =>
           ScoreOf([input EXCEPT !.dti_pct = v]) >= snapshot.fundability_score
    /\ \A v \in InquiryRange :
         v < input.inquiries_6m =>
           ScoreOf([input EXCEPT !.inquiries_6m = v]) >= snapshot.fundability_score
    /\ \A v \in CreditScoreEdges :
         (input.credit_score # null /\ v > input.credit_score) =>
           ScoreOf([input EXCEPT !.credit_score = v]) >= snapshot.fundability_score

(* A snapshot that a lower utilization and a higher credit score each      *)
(* strictly improve.                                                       *)
C2_Witness ==
  /\ Done
  /\ \E v \in UtilizationEdges :
       /\ v < input.revolving_utilization_pct
       /\ ScoreOf([input EXCEPT !.revolving_utilization_pct = v]) > snapshot.fundability_score
  /\ \E v \in CreditScoreEdges :
       /\ input.credit_score # null /\ v > input.credit_score
       /\ ScoreOf([input EXCEPT !.credit_score = v]) > snapshot.fundability_score

C4_TierFromScore ==
  Done =>
    LET n == snapshot.fundability_score
        t == snapshot.fundability_tier_numeric
        l == snapshot.fundability_tier_label
    IN  /\ n >= 85 => (t = 1 /\ l = "Tier 1 - Ready Now (Prime)")
        /\ (n >= 70 /\ n <= 84) => (t = 2 /\ l = "Tier 2 - Tune-Up Then Ready")
        /\ (n >= 55 /\ n <= 69) => (t = 3 /\ l = "Tier 3 - Optimization Required")
        /\ n < 55 => (t = 4 /\ l = "Tier 4 - Rehab / Long-Term Plan")
        /\ \A m \in 0..100 :
             /\ m >= n => determineTier(m).numeric <= t
             /\ m <= n => determineTier(m).numeric >= t

(* A snapshot with score exactly 85, in tier 1. *)
C4_Witness ==
  Done /\ snapshot.fundability_score = 85 /\ snapshot.fundability_tier_numeric = 1

(* C5: penalty_points is -25 for the major-event flag plus -20 for three   *)
(* or more derogs or -10 for one or two, floored at -35: that is 0, -10,   *)
(* -20 without the flag and -25, -35, -35 with it; always in -35..0.       *)
C5_PenaltyPoints ==
  Done =>
    LET p == snapshot.subscores.penalty_points
        d == input.recent_derogs_24m
    IN  /\ p \in (0 - 35)..0
        /\ (~input.bk_or_major_event /\ d = 0) => p = 0
        /\ (~input.bk_or_major_event /\ d \in {1, 2}) => p = 0 - 10
        /\ (~input.bk_or_major_event /\ d >= 3) => p = 0 - 20
        /\ (input.bk_or_major_event /\ d = 0) => p = 0 - 25
        /\ (input.bk_or_major_event /\ d >= 1) => p = 0 - 35

(* The flag with three derogs: -45 before the floor, -35 after. *)
C5_Witness ==
  /\ Done
  /\ input.bk_or_major_event /\ input.recent_derogs_24m >= 3
  /\ snapshot.subscores.penalty_points = 0 - 35

(* C6 as amended: a utilization of exactly 30 has utilization subscore 75 *)
(* (90 is for values under 30: 29 still has 90).                           *)
C6_Utilization30Is75 ==
  Done =>
    /\ input.revolving_utilization_pct = 30 => snapshot.subscores.utilization_subscore = 75
    /\ input.revolving_utilization_pct = 29 => snapshot.subscores.utilization_subscore = 90

(* A scored record with utilization exactly 30. *)
C6_Witness ==
  Done /\ input.revolving_utilization_pct = 30
       /\ snapshot.subscores.utilization_subscore = 75

(* C6 as stated: a utilization of exactly 30 has utilization subscore 90. *)
C6_Original ==
  (Done /\ input.revolving_utilization_pct = 30) =>
    snapshot.subscores.utilization_subscore = 90

(* The step tables of the specification, as ordered <<threshold, value>>   *)
(* pairs evaluated top-down: the first pair the test accepts gives the     *)
(* value, and rest is the value when none does.                            *)
RECURSIVE FirstAtLeast(_, _, _)
FirstAtLeast(table, x, rest) ==
  IF table = <<>> THEN rest
  ELSE IF x >= Head(table)[1] THEN Head(table)[2]
  ELSE FirstAtLeast(Tail(table), x, rest)

RECURSIVE FirstBelow(_, _, _)
FirstBelow(table, x, rest) ==
  IF table = <<>> THEN rest
  ELSE IF x < Head(table)[1] THEN Head(table)[2]
  ELSE FirstBelow(Tail(table), x, rest)

RECURSIVE FirstAtMost(_, _, _)
FirstAtMost(table, x, rest) ==
  IF table = <<>> THEN rest
  ELSE IF x <= Head(table)[1] THEN Head(table)[2]
  ELSE FirstAtMost(Tail(table), x, rest)

CreditTable == <<<<750, 95>>, <<720, 90>>, <<680, 80>>, <<640, 65>>, <<600, 45>>, <<550, 30>>>>
UtilizationTable == <<<<10, 95>>, <<30, 90>>, <<50, 75>>, <<75, 50>>, <<90, 30>>>>
DTITable == <<<<25, 95>>, <<35, 85>>, <<45, 70>>, <<55, 45>>>>
InquiryTable == <<<<1, 95>>, <<3, 80>>, <<5, 60>>, <<8, 35>>>>
DepthTable == <<<<10, 6, 95>>, <<7, 4, 85>>, <<3, 3, 70>>>>

(* C7: every positive subscore of the snapshot is the value of the         *)
(* specification's step table for the input's attribute.                   *)
C7_StepTables ==
  Done =>
    LET sub == snapshot.subscores
        depth == {i \in 1..Len(DepthTable) :
                    /\ input.oldest_account_years >= DepthTable[i][1]
                    /\ input.open_tradelines >= DepthTable[i][2]}
    IN  /\ sub.credit_score_subscore =
             IF input.credit_score = null THEN 40
             ELSE FirstAtLeast(CreditTable, input.credit_score, 15)
        /\ sub.utilization_subscore =
             FirstBelow(UtilizationTable, input.revolving_utilization_pct, 15)
        /\ sub.dti_subscore =
             IF input.dti_pct = null THEN 55
             ELSE FirstBelow(DTITable, input.dti_pct, 25)
        /\ sub.inquiry_subscore = FirstAtMost(InquiryTable, input.inquiries_6m, 20)
        /\ sub.depth_mix_subscore =
             IF depth = {} THEN 45
             ELSE DepthTable[CHOOSE i \in depth : \A j \in depth : i <= j][3]
        /\ input.credit_score = 750 => sub.credit_score_subscore = 95
        /\ input.credit_score = 749 => sub.credit_score_subscore = 90

(* A scored record with credit score exactly 750. *)
C7_Witness ==
  Done /\ input.credit_score = 750 /\ snapshot.subscores.credit_score_subscore = 95

(* C8: an absent credit_score has credit subscore 40 and                   *)
(* missing_credit_score true; an absent dti_pct has DTI subscore 55 and    *)
(* missing_dti true; a present value has its flag false.                   *)
C8_MissingData ==
  Done =>
    /\ input.credit_score = null =>
         /\ snapshot.subscores.credit_score_subscore = 40
         /\ snapshot.flags.missing_credit_score = TRUE
    /\ input.credit_score # null => snapshot.flags.missing_credit_score = FALSE
    /\ input.dti_pct = null =>
         /\ snapshot.subscores.dti_subscore = 55
         /\ snapshot.flags.missing_dti = TRUE
    /\ input.dti_pct # null => snapshot.flags.missing_dti = FALSE

(* A scored record without credit_score and with dti_pct. *)
C8_Witness ==
  /\ Done
  /\ input.credit_score = null /\ input.dti_pct # null
  /\ snapshot.flags.missing_credit_score /\ ~snapshot.flags.missing_dti

(* The credit attributes of two records agree (the goal may differ). *)
SameProfile(a, b) == [a EXCEPT !.primary_goal = b.primary_goal] = b

(* C9: the end-to-end input has subscores 90, 90, 85, 95, 95, penalty 0,   *)
(* weighted raw value 85.5, fundability_score 86 and tier 1.               *)
C9_EndToEnd ==
  (Done /\ SameProfile(input, EndToEndInput)) =>
    /\ snapshot.subscores =
         [credit_score_subscore |-> 90, utilization_subscore |-> 90, dti_subscore |-> 85,
          inquiry_subscore |-> 95, depth_mix_subscore |-> 95, penalty_points |-> 0]
    /\ RawHundredths(snapshot) = 8550
    /\ snapshot.fundability_score = 86
    /\ snapshot.fundability_tier_numeric = 1

(* The end-to-end input, scored. *)
C9_Witness ==
  Done /\ input = EndToEndInput /\ snapshot.fundability_score = 86

(* C10: the README request example yields the README response example:     *)
(* score 76, tier 2, subscores 80/75/70/80/85/0, the single                *)
(* high-utilization risk, the two listed actions, the two listed funding   *)
(* ranges, goal path and flags.                                            *)
C10_ReadmeExample ==
  (Done /\ input = ReadmeInput) =>
    /\ snapshot.fundability_score = 76
    /\ snapshot.fundability_tier_numeric = 2
    /\ snapshot.fundability_tier_label = "Tier 2 - Tune-Up Then Ready"
    /\ snapshot.subscores =
         [credit_score_subscore |-> 80, utilization_subscore |-> 75, dti_subscore |-> 70,
          inquiry_subscore |-> 80, depth_mix_subscore |-> 85, penalty_points |-> 0]
    /\ snapshot.key_strengths = <<StrengthCredit, StrengthDepthMix>>
    /\ snapshot.key_risks = <<RiskUtilization>>
    /\ snapshot.high_impact_actions =
         <<"Pay down revolving balances to reduce utilization below 30% - current 45% is limiting approvals",
           "Target paying off 1-2 highest monthly payment accounts to improve DTI and boost approval odds">>
    /\ snapshot.funding_range_now = "Moderate ($25K-$75K)"
    /\ snapshot.funding_range_after_optimization = "Moderate-High ($50K-$125K)"
    /\ snapshot.goal_path =
         "Ready for unsecured business lines, equipment financing, and SBA products"
    /\ snapshot.flags =
         [missing_credit_score |-> FALSE, missing_utilization |-> FALSE,
          missing_dti |-> FALSE, high_risk_profile |-> FALSE]
    /\ snapshot.meta.version = "fs_engine_v1.0"

-----------------------------------------------------------------------------
(* Properties of the narrative lists, funding ranges and flags *)

(* The second (after optimization) table of funding ranges. *)
HigherRange(tier) ==
  CASE tier = 1 -> "High ($75K-$200K+)"
    [] tier = 2 -> "Moderate-High ($50K-$125K)"
    [] tier = 3 -> "Moderate ($25K-$75K)"
    [] tier = 4 -> "Low-Moderate ($15K-$50K)"

(* C12 as amended: funding_range_after_optimization is the second table   *)
(* at tier max(1, tier - 1) exactly when the utilization SUBSCORE is <= 75 *)
(* or the DTI SUBSCORE is <= 70 or the inquiry subscore is <= 60, and      *)
(* otherwise the same string as funding_range_now.                         *)
C12_OptimizedRangeBySubscores ==
  Done =>
    LET sub == snapshot.subscores
        t == snapshot.fundability_tier_numeric
        potential == \/ sub.utilization_subscore <= 75
                     \/ sub.dti_subscore <= 70
                     \/ sub.inquiry_subscore <= 60
    IN  snapshot.funding_range_after_optimization =
          IF potential THEN HigherRange(IF t = 1 THEN 1 ELSE t - 1)
          ELSE snapshot.funding_range_now

(* A tier 1 snapshot with optimization potential: the bump stops at 1. *)
C12_Witness ==
  /\ Done
  /\ snapshot.fundability_tier_numeric = 1
  /\ snapshot.subscores.inquiry_subscore <= 60
  /\ snapshot.funding_range_after_optimization = "High ($75K-$200K+)"

(* C12 as stated: the trigger reads the raw utilization and DTI            *)
(* percentages (<= 75, <= 70) and the inquiry subscore (<= 60).            *)
C12_Original ==
  Done =>
    LET t == snapshot.fundability_tier_numeric
        potential == \/ input.revolving_utilization_pct <= 75
                     \/ input.dti_pct <= 70
                     \/ snapshot.subscores.inquiry_subscore <= 60
    IN  snapshot.funding_range_after_optimization =
          IF potential THEN HigherRange(IF t = 1 THEN 1 ELSE t - 1)
          ELSE snapshot.funding_range_now

(* C13: high_risk_profile is true exactly when the tier is 4 or            *)
(* penalty_points <= -20, and missing_utilization is false.                *)
C13_HighRiskFlag ==
  Done =>
    /\ snapshot.flags.high_risk_profile <=>
         (snapshot.fundability_tier_numeric = 4 \/ snapshot.subscores.penalty_points <= 0 - 20)
    /\ snapshot.flags.missing_utilization = FALSE

(* A snapshot above tier 4 that a penalty of exactly -20 makes high risk. *)
C13_Witness ==
  /\ Done
  /\ snapshot.fundability_tier_numeric < 4
  /\ snapshot.subscores.penalty_points = 0 - 20
  /\ snapshot.flags.high_risk_profile

(* The entries of an ordered <<triggered, sentence>> list that triggered. *)
RECURSIVE Triggered(_)
Triggered(rules) ==
  IF rules = <<>> THEN <<>>
  ELSE IF Head(rules)[1] THEN <<Head(rules)[2]>> \o Triggered(Tail(rules))
  ELSE Triggered(Tail(rules))

FirstThree(s) == IF Len(s) <= 3 THEN s ELSE <<s[1], s[2], s[3]>>

ActionRules(in, sub) ==
  << [on |-> sub.utilization_subscore <= 75,
      priority |-> IF sub.utilization_subscore <= 50 THEN 100 ELSE 80,
      action |-> ActionUtilization(in.revolving_utilization_pct)],
     [on |-> sub.dti_subscore <= 70,
      priority |-> IF sub.dti_subscore <= 45 THEN 95 ELSE 75,
      action |-> ActionDTI],
     [on |-> sub.inquiry_subscore <= 60, priority |-> 85,
      action |-> ActionInquiry(in.inquiries_6m)],
     [on |-> sub.penalty_points < 0, priority |-> 90, action |-> ActionPenalty],
     [on |-> sub.depth_mix_subscore <= 70, priority |-> 60, action |-> ActionDepthMix],
     [on |-> sub.credit_score_subscore <= 65, priority |-> 70, action |-> ActionCredit],
     [on |-> in.revolving_utilization_pct >= 50 /\ sub.credit_score_subscore >= 65,
      priority |-> 85, action |-> ActionBalanceTransfer] >>

(* C16: high_impact_actions holds the sentences of the candidates of the   *)
(* seven rules, by non-increasing priority with ties in rule order, cut to *)
(* the first 5: every returned sentence is a candidate's, none is returned *)
(* twice, and every omitted candidate ranks behind every returned one.     *)
C16_HighImpactActions ==
  Done =>
    LET rules == ActionRules(input, snapshot.subscores)
        cand == {i \in 1..Len(rules) : rules[i].on}
        acts == snapshot.high_impact_actions
        Rule(k) == CHOOSE i \in cand : rules[i].action = acts[k]
        returned == {Rule(k) : k \in 1..Len(acts)}
        Before(i, j) == \/ rules[i].priority > rules[j].priority
                        \/ rules[i].priority = rules[j].priority /\ i < j
    IN  /\ Len(acts) = IF Cardinality(cand) <= 5 THEN Cardinality(cand) ELSE 5
        /\ \A k \in 1..Len(acts) : \E i \in cand : rules[i].action = acts[k]
        /\ \A k, l \in 1..Len(acts) : k < l => Before(Rule(k), Rule(l))
        /\ \A j \in cand \ returned : \A i \in returned : Before(i, j)

(* All seven rules apply: two candidates are cut, and the tie at priority  *)
(* 85 (inquiries, balance transfer) is returned in rule order.             *)
C16_Witness ==
  /\ Done
  /\ \A i \in 1..7 : ActionRules(input, snapshot.subscores)[i].on
  /\ Len(snapshot.high_impact_actions) = 5
  /\ snapshot.high_impact_actions[4] = ActionInquiry(input.inquiries_6m)
  /\ snapshot.high_impact_actions[5] = ActionBalanceTransfer

(* C17: every snapshot's high_impact_actions has 3 to 5 entries. *)
C17_ThreeToFiveActions ==
  Done => Len(snapshot.high_impact_actions) \in 3..5

-----------------------------------------------------------------------------
(* Properties of repeated calls *)

-----------------------------------------------------------------------------
(* Properties of the validator and of the snapshot handler *)

(* Nothing was stored: the call was never made. *)
NotCalled(x) == DOMAIN x = {}

(* validateInput was called with the request body and returned a result. *)
ValidatorReturned == ~NotCalled(validation) /\ ~validation.threw

Absent(v) == v.type \in {"undefined", "null"}

NumberIn(v, lowTenths, highTenths) ==
  v.type = "number" /\ lowTenths <= v.tenths /\ v.tenths <= highTenths

NonNegativeInteger(v) == v.type = "number" /\ v.tenths >= 0 /\ v.tenths % 10 = 0

WellFormedEmails == {"a@b.c", "a.b@c.d", "a@b.c.d"}

(* The constraint on field f, as the data model states it. *)
Satisfies(f, v) ==
  CASE f \in {"first_name", "last_name"} -> v.type = "string" /\ v.str # ""
    [] f = "email" -> v.type = "string" /\ v.str \in WellFormedEmails
    [] f = "credit_score" -> Absent(v) \/ NumberIn(v, 3000, 8500)
    [] f = "revolving_utilization_pct" -> NumberIn(v, 0, 1000)
    [] f = "dti_pct" -> Absent(v) \/ NumberIn(v, 0, 1000)
    [] f \in {"inquiries_6m", "recent_derogs_24m"} -> Absent(v) \/ NonNegativeInteger(v)
    [] f = "open_tradelines" -> NonNegativeInteger(v)
    [] f = "oldest_account_years" -> Absent(v) \/ (v.type = "number" /\ v.tenths >= 0)
    [] f = "bk_or_major_event" -> Absent(v) \/ v.type = "boolean"
    [] f = "requested_amount" -> v.type = "number" /\ v.tenths > 0
    [] f = "primary_goal" -> v.type = "string" /\ v.str \in PrimaryGoal

(* The validated fields whose constraint the body violates. *)
Violated(body) == {f \in ValidatedFields : ~Satisfies(f, Prop(body, f))}

(* The error string of a violated field: the field's name, then what is    *)
(* required of it.                                                         *)
Requirement(f) ==
  CASE f \in {"first_name", "last_name"} -> "is required and must be a string"
    [] f = "email" -> "is required and must be a valid email address"
    [] f = "credit_score" -> "must be between 300 and 850, or null"
    [] f = "revolving_utilization_pct" ->
         "is required and must be between " \o ToString(0) \o " and " \o ToString(100)
    [] f = "dti_pct" -> "must be between 0 and 100, or null"
    [] f \in {"inquiries_6m", "recent_derogs_24m"} -> "must be a non-negative integer"
    [] f = "open_tradelines" -> "is required and must be a non-negative integer"
    [] f = "oldest_account_years" -> "must be a non-negative number"
    [] f = "bk_or_major_event" -> "must be a boolean"
    [] f = "requested_amount" -> "is required and must be a positive number"
    [] f = "primary_goal" ->
         "is required and must be one of: startup_funding, business_funding, "
           \o "debt_consolidation, improve_credit, lower_utilization, "
           \o "raise_score_fast, not_sure"

ErrorNaming(f) == f \o " " \o Requirement(f)

(* C18: validateInput does not stop at the first violation.  For a body    *)
(* violating k > 0 of the thirteen field constraints it returns            *)
(* valid = false with exactly k error strings, one naming each violated    *)
(* field; utilization 150 yields the error naming that field and the       *)
(* bounds 0 and 100, a missing primary_goal the error listing the seven    *)
(* permitted values.                                                       *)
C18_AllViolationsReported ==
  ValidatorReturned =>
    LET violated == Violated(request.body)
    IN  violated # {} =>
          /\ validation.valid = FALSE
          /\ Len(validation.errors) = Cardinality(violated)
          /\ \A f \in violated :
               \E i \in 1..Len(validation.errors) : validation.errors[i] = ErrorNaming(f)
          /\ \A i \in 1..Len(validation.errors) :
               \E f \in violated : validation.errors[i] = ErrorNaming(f)

(* Every one of the thirteen constraints is violated at once, utilization  *)
(* being 150 and primary_goal missing, and thirteen errors came back.      *)
C18_Witness ==
  /\ ValidatorReturned
  /\ Cardinality(Violated(request.body)) = Cardinality(ValidatedFields)
  /\ Prop(request.body, "revolving_utilization_pct") = Whole(150)
  /\ Prop(request.body, "primary_goal") = Undefined
  /\ Len(validation.errors) = 13
  /\ validation.errors[5] = "revolving_utilization_pct is required and must be between 0 and 100"

(* C19: validateInput returns a data record only when no constraint is     *)
(* violated, and then the record has the defaults applied: absent          *)
(* credit_score and dti_pct are null, absent inquiries_6m,                 *)
(* oldest_account_years and recent_derogs_24m are 0, absent                *)
(* bk_or_major_event is false, and a field that is present is kept.  When  *)
(* a constraint is violated the result carries errors and no data.         *)
C19_DataOnlyWhenValid ==
  ValidatorReturned =>
    LET body == request.body
        DefaultOf(f) ==
          CASE f \in {"credit_score", "dti_pct"} -> Null
            [] f \in {"inquiries_6m", "oldest_account_years", "recent_derogs_24m"} -> Whole(0)
            [] f = "bk_or_major_event" -> Bool(FALSE)
    IN  IF Violated(body) = {}
          THEN /\ validation.valid = TRUE
               /\ validation.data # Undefined
               /\ \A f \in DefaultedFields :
                    validation.data[f] =
                      IF Prop(body, f) = Undefined THEN DefaultOf(f)
                      ELSE IF Prop(body, f) = Null THEN DefaultOf(f)
                      ELSE Prop(body, f)
               /\ \A f \in ValidatedFields \ DefaultedFields :
                    validation.data[f] = Prop(body, f)
          ELSE /\ validation.valid = FALSE
               /\ validation.data = Undefined
               /\ Len(validation.errors) > 0

(* A valid body without any of the six defaulted fields was validated. *)
C19_Witness ==
  /\ ValidatorReturned
  /\ validation.valid
  /\ \A f \in DefaultedFields : Prop(request.body, f) = Undefined
  /\ validation.data.credit_score = Null
  /\ validation.data.inquiries_6m = Whole(0)
  /\ validation.data.bk_or_major_event = Bool(FALSE)

(* C20: the snapshot handler sends exactly one response per request: 405   *)
(* for a method other than POST, without validating or scoring; 400 with   *)
(* error 'Validation failed' and the validator's error list when a         *)
(* constraint is violated, without scoring; 200 with the snapshot when the *)
(* body is valid; 500 with error 'Internal server error' when validation   *)
(* throws.  No response is sent twice on the way.                          *)
C20_ExactlyOneResponse ==
  /\ Len(responses) <= 1
  /\ pc = "returned" =>
       /\ Len(responses) = 1
       /\ LET res == responses[1]
              body == request.body
          IN  IF request.method # "POST"
                THEN /\ res.status = 405
                     /\ NotCalled(validation)
                     /\ NotCalled(snapshot)
              ELSE IF Absent(body)
                THEN /\ res.status = 500
                     /\ res.body.error = "Internal server error"
                     /\ NotCalled(snapshot)
              ELSE IF Violated(body) # {}
                THEN /\ res.status = 400
                     /\ res.body.error = "Validation failed"
                     /\ res.body.details = validation.errors
                     /\ Len(res.body.details) = Cardinality(Violated(body))
                     /\ NotCalled(snapshot)
                ELSE /\ res.status = 200
                     /\ ~NotCalled(snapshot)
                     /\ res.body = snapshot
                     /\ snapshot.fundability_score = ScoreOf(ToInput(validation.data))

(* A POST without a body: validateInput threw and the 500 was sent. *)
C20_Witness ==
  /\ pc = "returned"
  /\ request.method = "POST"
  /\ request.body = Undefined
  /\ validation = Threw
  /\ Len(responses) = 1
  /\ responses[1].status = 500

-----------------------------------------------------------------------------
(* Bounds that follow from the weights and the penalties *)

C29_PenaltiesBoundTier ==
  Done =>
    /\ (input.recent_derogs_24m >= 1 \/ input.bk_or_major_event) =>
         snapshot.subscores.penalty_points < 0
    /\ snapshot.subscores.penalty_points < 0 => snapshot.fundability_tier_numeric # 1
    /\ input.bk_or_major_event =>
         /\ snapshot.fundability_tier_numeric \in {3, 4}
         /\ snapshot.flags.high_risk_profile

(* The best profile with the major-event flag set: tier 3 at score 65. *)
C29_Witness ==
  /\ Done
  /\ input.bk_or_major_event
  /\ input.recent_derogs_24m = 0
  /\ snapshot.fundability_score = 65
  /\ snapshot.fundability_tier_numeric = 3
  /\ snapshot.flags.high_risk_profile

-----------------------------------------------------------------------------
(* Properties of the analytics store *)

(* C24: after n trackAssessment calls the store holds exactly the          *)
(* min(n, limit) most recently tracked assessments in arrival order; its   *)
(* length never exceeds the limit and the entries evicted are the oldest.  *)
C24_StoreKeepsMostRecent ==
  LET n == Len(tracked)
      kept == Min(n, StoreLimit)
  IN  /\ Len(assessmentStore) = kept
      /\ Len(assessmentStore) <= StoreLimit
      /\ \A i \in 1..kept : assessmentStore[i] = tracked[n - kept + i]

(* More assessments were tracked than the store keeps, and the oldest one  *)
(* differs from everything kept.                                           *)
C24_Witness ==
  /\ Len(tracked) > StoreLimit
  /\ Len(assessmentStore) = StoreLimit
  /\ \A i \in 1..Len(assessmentStore) : assessmentStore[i] # tracked[1]

(* C30: in the metrics computed over tracked snapshots every filtered      *)
(* assessment is counted in exactly one funding_ranges bucket: the five    *)
(* buckets sum to totals.assessments, as the four tiers and the four score *)
(* ranges do.                                                              *)
C30_FundingRangesSumToTotal ==
  pc = "reported" =>
    LET m == analytics.data
    IN  /\ m.tier_distribution.tier_1 + m.tier_distribution.tier_2
             + m.tier_distribution.tier_3 + m.tier_distribution.tier_4
             = m.totals.assessments
        /\ m.score_ranges.r85_100 + m.score_ranges.r70_84
             + m.score_ranges.r55_69 + m.score_ranges.r0_54
             = m.totals.assessments
        /\ m.funding_ranges.low + m.funding_ranges.low_moderate
             + m.funding_ranges.moderate + m.funding_ranges.moderate_high
             + m.funding_ranges.high
             = m.totals.assessments

-----------------------------------------------------------------------------
(* Properties of the webhook broadcast *)

(* The destination of config i can be delivered to: the config is an       *)
(* object and is not disabled.                                             *)
Deliverable(i) ==
  configs[i].type = "object" /\ configs[i].fields.enabled # Bool(FALSE)

(* The destination of config i answers the POST with an ok response. *)
AnswersOk(i) == FetchOutcome(configs[i].fields.url) = "ok"

(* The broadcast returned counts, whatever the destinations did: success   *)
(* + failed is the number of configs, success counts exactly the           *)
(* deliveries that returned ok, and the promise of a destination depends   *)
(* on that destination alone.                                              *)
CountsAndIsolation ==
  /\ broadcast.success + broadcast.failed = Len(configs)
  /\ broadcast.success =
       Cardinality({i \in 1..Len(configs) : Deliverable(i) /\ AnswersOk(i)})
  /\ \A i \in 1..Len(configs) :
       deliveries[i] =
         IF configs[i] = Null THEN [status |-> "rejected"]
         ELSE [status |-> "fulfilled", value |-> Deliverable(i) /\ AnswersOk(i)]

(* C23 as stated: broadcastToWebhooks attempts delivery to every           *)
(* configured destination independently and never rejects; success +       *)
(* failed = number of configs, success counting exactly the destinations   *)
(* whose delivery returned ok.                                             *)
C23_Original ==
  pc = "broadcasted" =>
    /\ \A i \in 1..Len(configs) : \E k \in 1..Len(posts) : posts[k] = i
    /\ CountsAndIsolation

(* C23: broadcastToWebhooks attempts delivery to every destination whose   *)
(* config is not disabled (enabled: false), each once; a disabled or       *)
(* unreadable config gets no POST and is counted as failed.  It never      *)
(* rejects, a destination that throws or answers not ok changes no other   *)
(* destination's outcome, success + failed = number of configs, and        *)
(* success counts exactly the destinations whose delivery returned ok.     *)
C23_BroadcastIsolated ==
  /\ pc \in {"settling", "broadcasted"} =>
       /\ \A i \in 1..Len(configs) :
            Cardinality({k \in 1..Len(posts) : posts[k] = i})
              = IF Deliverable(i) THEN 1 ELSE 0
       /\ \A i \in 1..Len(configs) :
            deliveries[i].status = "fulfilled" /\ Deliverable(i) =>
              deliveries[i].value = AnswersOk(i)
  /\ pc = "broadcasted" => CountsAndIsolation

(* Three destinations: one throws, one is disabled, one answers ok;       *)
(* the counts are 1 success and 2 failed.                                  *)
C23_Witness ==
  /\ pc = "broadcasted"
  /\ Len(configs) = 3
  /\ Deliverable(1) /\ FetchOutcome(configs[1].fields.url) = "throws"
  /\ configs[2].type = "object" /\ configs[2].fields.enabled = Bool(FALSE)
  /\ Deliverable(3) /\ AnswersOk(3)
  /\ broadcast = [success |-> 1, failed |-> 2]

-----------------------------------------------------------------------------
(* Properties of processBatch and parseCSVToClients *)

BatchOver == pc \in {"returned", "rejected"}

(* What the handler of POST /fs-snapshot computes for the record: the      *)
(* engine on the data validateInput returns.                               *)
HandlerSnapshot(client, now) ==
  calculateFundabilitySnapshot(ToInput(validateInput(client).data), now)

(* The number of items of the list that are about the record. *)
ItemsAbout(items, record) == Len(SelectSeq(items, LAMBDA item : item.record = record))

(* C21: when processBatch is over, every input record appears exactly once *)
(* in success or failed of the BatchResult, successful + failed = total =  *)
(* number of records, and no exception about one record keeps another      *)
(* record from being reported: the call never ends without the result.     *)
C21_EveryRecordReported ==
  BatchOver =>
    /\ pc = "returned"
    /\ \A r \in 1..Len(clients) :
         ItemsAbout(batchResult.success, r) + ItemsAbout(batchResult.failed, r) = 1
    /\ batchResult.summary.successful + batchResult.summary.failed
         = batchResult.summary.total
    /\ batchResult.summary.total = Len(clients)

(* C22: a record for which validateInput reports a violated constraint is  *)
(* not scored: it is in failed with the message 'Validation failed: ...'   *)
(* and not in success.                                                     *)
C22_InvalidRecordsFail ==
  pc = "returned" =>
    \A r \in 1..Len(clients) :
      LET validation_r == validateInput(clients[r])
      IN  (~validation_r.threw /\ ~validation_r.valid) =>
            /\ ItemsAbout(success, r) = 0
            /\ \E i \in 1..Len(failed) :
                 /\ failed[i].record = r
                 /\ failed[i].error
                      = "Validation failed: " \o Join(validation_r.errors, ", ")

(* The record has no credit_score, no dti_pct or no inquiries_6m. *)
LacksDefaulted(client) ==
  \E f \in {"credit_score", "dti_pct", "inquiries_6m"} : Prop(client, f) = Undefined

(* C27: a record parsed from a line with an empty credit_score, dti_pct or *)
(* inquiries_6m cell gets from processBatch the snapshot the handler path  *)
(* gives it: credit subscore 40 with missing_credit_score, dti subscore 55 *)
(* with missing_dti, inquiry subscore 95.                                  *)
C27_BatchMatchesHandler ==
  pc = "returned" =>
    \A i \in 1..Len(success) :
      LET client == clients[success[i].record]
          result == success[i].result
      IN  (LacksDefaulted(client) /\ validateInput(client).valid) =>
            /\ result = HandlerSnapshot(client, result.meta.generated_at)
            /\ Prop(client, "credit_score") = Undefined =>
                 /\ result.subscores.credit_score_subscore = 40
                 /\ result.flags.missing_credit_score
            /\ Prop(client, "dti_pct") = Undefined =>
                 /\ result.subscores.dti_subscore = 55
                 /\ result.flags.missing_dti
            /\ Prop(client, "inquiries_6m") = Undefined =>
                 result.subscores.inquiry_subscore = 95

(* The chunk the record is in. *)
ChunkOf(record) ==
  CHOOSE k \in 1..Len(chunks) : \E j \in 1..Len(chunks[k]) : chunks[k][j] = record

(* The event happened before position e of the record of events. *)
Before(e, kind, n) == \E d \in 1..(e - 1) : events[d] = Event(kind, n)

C26_BatchTerminates ==
  <>(pc = "returned" \/ \E r \in 1..Len(clients) : Nullish(clients[r]))

====
